---- MODULE Spec2Model ----
(***************************************************************************)
(* A model of ai-rules: rule documents under ai-rules/ are projected into  *)
(* agent-specific artifacts by `generate`, compared against disk by        *)
(* `status`, and removed by `clean`.                                       *)
(*                                                                         *)
(* Representation.  A file name is a sequence of string tokens, e.g.       *)
(* <<"ai-rules-generated-", "a", ".md">>, so that starts_with/ends_with    *)
(* and the format! calls of the code are computed on the tokens.  A path   *)
(* is a sequence of names relative to the project directory.  The file     *)
(* system is a function from the existing paths to nodes; a node is a file *)
(* (with its text), a symbolic link (with its target) or a directory.      *)
(* Text is a sequence of string tokens: "\n" is the newline, "---" the     *)
(* frontmatter delimiter.                                                  *)
(***************************************************************************)
EXTENDS Integers, Sequences, FiniteSets, TLC

(***************************************************************************)
(* constants.rs                                                            *)
(***************************************************************************)
MD_EXTENSION == ".md"
AI_RULE_SOURCE_DIR == <<"ai-rules">>
GENERATED_RULE_BODY_DIR == <<".generated-ai-rules">>
AGENTS_MD_FILENAME == <<"AGENTS", ".md">>
AGENTS_MD_GROUP_NAME == "agents-md"
AGENTS_MD_AGENTS == <<"amp", "cline", "codex", "copilot", "goose", "kilocode", "roo">>
GENERATED_FILE_PREFIX == "ai-rules-generated-"
GENERATED_COMMAND_SUFFIX == "-ai-rules"
SKILL_FILENAME == <<"SKILL", ".md">>
SKILLS_DIR == <<"skills">>
COMMANDS_DIR == <<"commands">>
MCP_JSON == <<"mcp", ".json">>
FIREBENDER_JSON == <<"firebender", ".json">>
FRONTMATTER_DELIMITER == "---"
NL == "\n"

(***************************************************************************)
(* Generic sequence helpers                                                *)
(***************************************************************************)
Range(s) == {s[i] : i \in DOMAIN s}

\* The function f as an explicit table of its values.
Table(f) == f @@ [x \in {} |-> x]

Last(s) == s[Len(s)]

Front(s) == SubSeq(s, 1, Len(s) - 1)

RECURSIVE Flatten(_)
Flatten(ss) == IF ss = <<>> THEN <<>> ELSE Head(ss) \o Flatten(Tail(ss))

\* str::trim_start: leading whitespace tokens are dropped.
RECURSIVE TrimStart(_)
TrimStart(s) ==
    IF s # <<>> /\ Head(s) \in {NL, " "} THEN TrimStart(Tail(s)) ELSE s

\* Index of the first occurrence of tok in s, 0 when there is none.
RECURSIVE IndexOf(_, _, _)
IndexOf(s, tok, from) ==
    IF from > Len(s) THEN 0
    ELSE IF s[from] = tok THEN from
    ELSE IndexOf(s, tok, from + 1)

\* A line end after the content whatever its last character.
append_newline(content) == [content EXCEPT !.text = Append(@, NL)]

\* file_utils.rs ensure_trailing_newline, on a file's content.
ensure_trailing_newline(content) ==
    IF content.text # <<>> /\ Last(content.text) = NL THEN content
    ELSE [content EXCEPT !.text = Append(@, NL)]

(***************************************************************************)
(* Paths (std::path) and the file system (std::fs)                         *)
(***************************************************************************)
Join(p, name) == Append(p, name)

Parent(p) == Front(p)

FileName(p) == Last(p)

\* Path::extension compared with ext: the name's last token.
HasExtension(p, ext) == Len(FileName(p)) > 1 /\ Last(FileName(p)) = ext

\* Path::file_stem: the name without its extension token.
FileStem(p) == IF Len(FileName(p)) > 1 THEN Front(FileName(p)) ELSE FileName(p)

StartsWithPrefix(name) == name # <<>> /\ Head(name) = GENERATED_FILE_PREFIX

IsPrefixOf(d, p) == Len(d) <= Len(p) /\ SubSeq(p, 1, Len(d)) = d

DOTDOT == <<"..">>

\* Path::canonicalize on the path's text: ".." removes the component before it.
RECURSIVE Normalize(_, _)
Normalize(done, rest) ==
    IF rest = <<>> THEN done
    ELSE IF Head(rest) = DOTDOT
         THEN Normalize(IF done = <<>> THEN <<>> ELSE Front(done), Tail(rest))
         ELSE Normalize(Append(done, Head(rest)), Tail(rest))

\* What a file holds: text, or a JSON value followed by text (its trailing newline).
TextOf(tokens) == [json |-> <<>>, text |-> tokens]
JsonText(value, tokens) == [json |-> <<value>>, text |-> tokens]

FileNode(content) == [k |-> "file", c |-> content, t |-> <<>>]
LinkNode(target) == [k |-> "link", c |-> TextOf(<<>>), t |-> target]
DirNode == [k |-> "dir", c |-> TextOf(<<>>), t |-> <<>>]

Has(fs, p) == p \in DOMAIN fs

\* Path::is_symlink (does not follow the link).
IsSymlink(fs, p) == Has(fs, p) /\ fs[p].k = "link"

\* A relative link resolves from the directory that holds it.
LinkTarget(fs, p) == Normalize(<<>>, Parent(p) \o fs[p].t)

\* The path a single link hop leads to; the path itself when it is no link.
Resolve(fs, p) == IF IsSymlink(fs, p) THEN LinkTarget(fs, p) ELSE p

\* Path::exists follows links: a dangling link does not exist.
Exists(fs, p) ==
    \/ p = <<>>
    \/ /\ Has(fs, p)
       /\ \/ fs[p].k # "link"
          \/ LET t == LinkTarget(fs, p) IN t = <<>> \/ (Has(fs, t) /\ fs[t].k # "link")

IsFile(fs, p) == Exists(fs, p) /\ Resolve(fs, p) # <<>> /\ fs[Resolve(fs, p)].k = "file"

IsDir(fs, p) == Exists(fs, p) /\ (Resolve(fs, p) = <<>> \/ fs[Resolve(fs, p)].k = "dir")

\* fs::read_to_string (of a path that is a file).
ReadToString(fs, p) == fs[Resolve(fs, p)].c

\* fs::read_dir: the entries of directory d.
ReadDir(fs, d) == {p \in DOMAIN fs : Len(p) = Len(d) + 1 /\ Parent(p) = d}

Ancestors(p) == {SubSeq(p, 1, n) : n \in 1..(Len(p) - 1)}

Put(fs, p, node) == (p :> node) @@ fs

\* fs::create_dir_all
CreateDirAll(fs, d) ==
    fs @@ [q \in Ancestors(d) \cup (IF d = <<>> THEN {} ELSE {d}) |-> DirNode]

\* fs::write after fs::create_dir_all(parent); writing to a link writes its target.
WriteFile(fs, p, content) ==
    LET q == Resolve(fs, p) IN Put(CreateDirAll(fs, Parent(q)), q, FileNode(content))

\* fs::remove_file: removes the file or the link itself.
RemoveFile(fs, p) == Table([q \in (DOMAIN fs) \ {p} |-> fs[q]])

\* fs::remove_dir_all: the directory and everything below it; a link is only unlinked.
RemoveDirAll(fs, d) ==
    IF IsSymlink(fs, d) THEN RemoveFile(fs, d)
    ELSE Table([q \in {r \in DOMAIN fs : ~IsPrefixOf(d, r)} |-> fs[q]])

(***************************************************************************)
(* models/source_file.rs: the rule parser and the applicability resolver   *)
(*                                                                         *)
(* Option<T> is a sequence of at most one element: <<>> is None and <<v>>  *)
(* is Some(v).  A result is a record with the field ok.                    *)
(***************************************************************************)
None == <<>>
Some(v) == <<v>>

\* The keys serde reads from the frontmatter block; any other key is ignored.
FrontMatterKeys ==
    {"description:", "alwaysApply:", "fileMatching:", "allowedAgents:", "blockedAgents:"}

\* Tokens that are YAML mapping keys (the known ones and one the struct does not name).
YamlKeys == FrontMatterKeys \cup {"author:"}

\* ASCII lower-casing of the agent names the model writes in mixed case.
Lower(name) ==
    CASE name = "Cursor" -> "cursor"
      [] name = "AMP" -> "amp"
      [] name = "Claude" -> "claude"
      [] OTHER -> name

eq_ignore_ascii_case(a, b) == Lower(a) = Lower(b)

FrontMatter(description, always_apply, patterns, allowed, blocked) ==
    [description |-> description, always_apply |-> always_apply,
     file_matching_patterns |-> patterns, allowed_agents |-> allowed,
     blocked_agents |-> blocked]

SourceFile(front_matter, body, base_file_name) ==
    [front_matter |-> front_matter, body |-> body, base_file_name |-> base_file_name]

\* FrontMatter::with_defaults_from_path: the description is the file stem.
with_defaults_from_path(file_path) ==
    LET stem == FileStem(file_path) IN
    FrontMatter(IF stem # <<>> /\ stem[1] # "" THEN stem[1] ELSE "Rule", TRUE, None, None, None)

\* The lines of a token sequence, without the empty ones.
RECURSIVE SplitLines(_, _)
SplitLines(tokens, line) ==
    IF tokens = <<>> THEN (IF line = <<>> THEN <<>> ELSE <<line>>)
    ELSE IF Head(tokens) = NL
         THEN (IF line = <<>> THEN <<>> ELSE <<line>>) \o SplitLines(Tail(tokens), <<>>)
         ELSE SplitLines(Tail(tokens), Append(line, Head(tokens)))

\* deserialize_comma_separated_optional: split on ',', trim, drop the empty pieces.
deserialize_comma_separated_optional(value) ==
    SelectSeq(value, LAMBDA piece : piece \notin {",", " ", ""})

\* serde_yaml::from_str::<FrontMatter>: a mapping of `key value...` lines.
\* alwaysApply has no serde default, so a block without it does not deserialize.
ParseFrontMatter(block) ==
    LET lines == SplitLines(block, <<>>)
        LinesOf(key) == SelectSeq(lines, LAMBDA l : Head(l) = key)
        Value(key) == Tail(LinesOf(key)[1])
        Given(key) == LinesOf(key) # <<>> /\ Value(key) # <<>>
        wellFormed ==
            /\ \A i \in DOMAIN lines : Head(lines[i]) \in YamlKeys
            /\ \A key \in YamlKeys : Len(LinesOf(key)) <= 1
            /\ Len(LinesOf("alwaysApply:")) = 1
            /\ Len(Value("alwaysApply:")) = 1
            /\ Value("alwaysApply:")[1] \in {"true", "false"}
            /\ LinesOf("description:") # <<>> => Len(Value("description:")) = 1
    IN  IF ~wellFormed THEN [ok |-> FALSE, front_matter |-> FrontMatter("", TRUE, None, None, None)]
        ELSE [ok |-> TRUE,
              front_matter |-> FrontMatter(
                  IF Given("description:") THEN Value("description:")[1] ELSE "",
                  Value("alwaysApply:")[1] = "true",
                  IF Given("fileMatching:")
                      THEN Some(deserialize_comma_separated_optional(Value("fileMatching:")))
                      ELSE None,
                  IF Given("allowedAgents:") THEN Some(Value("allowedAgents:")) ELSE None,
                  IF Given("blockedAgents:") THEN Some(Value("blockedAgents:")) ELSE None)]

ParseError == [ok |-> FALSE, source_file |-> SourceFile(FrontMatter("", TRUE, None, None, None), <<>>, "")]

\* SourceFile::parse
parse(raw, file_path) ==
    LET Split(content, close) ==
            IF close = 0 THEN ParseError  \* no third piece: "Missing body content"
            ELSE LET Built(fm, body) ==
                         IF ~fm.ok THEN ParseError
                         ELSE [ok |-> TRUE, source_file |-> SourceFile(fm.front_matter, body, "")]
                 IN  Built(ParseFrontMatter(SubSeq(content, 2, close - 1)),
                           TrimStart(SubSeq(content, close + 1, Len(content))))
        Parsed(content) ==
            IF content = <<>> THEN ParseError
            ELSE IF Head(content) # FRONTMATTER_DELIMITER
            THEN [ok |-> TRUE,
                  source_file |-> SourceFile(with_defaults_from_path(file_path), content, "")]
            ELSE \* splitn(3, "---"): the empty piece before the delimiter, the block, the body
                 Split(content, IndexOf(content, FRONTMATTER_DELIMITER, 2))
    IN  Parsed(TrimStart(raw))

\* SourceFile::from_file
from_file(fs, path) ==
    LET Named(r) ==
            IF r.ok THEN [r EXCEPT !.source_file.base_file_name = FileStem(path)[1]] ELSE r
    IN  Named(parse(ReadToString(fs, path).text, path))

\* SourceFile::get_body_file_name
get_body_file_name(source_file) ==
    <<GENERATED_FILE_PREFIX, source_file.base_file_name, MD_EXTENSION>>

\* A resolver in which blockedAgents comes before allowedAgents.
applies_to_agent_blocked_first(source_file, agent_name) ==
    LET fm == source_file.front_matter IN
    IF fm.blocked_agents # None
    THEN ~\E i \in DOMAIN fm.blocked_agents[1] :
              eq_ignore_ascii_case(fm.blocked_agents[1][i], agent_name)
    ELSE IF fm.allowed_agents # None
    THEN \E i \in DOMAIN fm.allowed_agents[1] :
             eq_ignore_ascii_case(fm.allowed_agents[1][i], agent_name)
    ELSE TRUE

\* SourceFile::applies_to_agent
applies_to_agent(source_file, agent_name) ==
    LET fm == source_file.front_matter IN
    IF fm.allowed_agents # None
    THEN \E i \in DOMAIN fm.allowed_agents[1] :
             eq_ignore_ascii_case(fm.allowed_agents[1][i], agent_name)
    ELSE IF fm.blocked_agents # None
    THEN ~\E i \in DOMAIN fm.blocked_agents[1] :
             eq_ignore_ascii_case(fm.blocked_agents[1][i], agent_name)
    ELSE TRUE

\* A group resolver that is content with one allowed name of the group.
applies_to_any_of_agents(source_file, agent_names) ==
    LET fm == source_file.front_matter IN
    IF agent_names = <<>> THEN TRUE
    ELSE IF fm.allowed_agents # None
    THEN \E i \in DOMAIN agent_names :
             \E j \in DOMAIN fm.allowed_agents[1] :
                 eq_ignore_ascii_case(fm.allowed_agents[1][j], Lower(agent_names[i]))
    ELSE IF fm.blocked_agents # None
    THEN ~\E i \in DOMAIN agent_names :
              \E j \in DOMAIN fm.blocked_agents[1] :
                  eq_ignore_ascii_case(fm.blocked_agents[1][j], Lower(agent_names[i]))
    ELSE TRUE

\* SourceFile::applies_to_agents
applies_to_agents(source_file, agent_names) ==
    LET fm == source_file.front_matter
        normalized_agents == [i \in DOMAIN agent_names |-> Lower(agent_names[i])]
    IN  IF agent_names = <<>> THEN TRUE
        ELSE IF fm.allowed_agents # None
        THEN \A i \in DOMAIN normalized_agents :
                 \E j \in DOMAIN fm.allowed_agents[1] :
                     eq_ignore_ascii_case(fm.allowed_agents[1][j], normalized_agents[i])
        ELSE IF fm.blocked_agents # None
        THEN ~\E i \in DOMAIN normalized_agents :
                 \E j \in DOMAIN fm.blocked_agents[1] :
                     eq_ignore_ascii_case(fm.blocked_agents[1][j], normalized_agents[i])
        ELSE TRUE

filter_source_files_for_agent(source_files, agent_name) ==
    SelectSeq(source_files, LAMBDA f : applies_to_agent(f, agent_name))

filter_source_files_for_agent_group(source_files, agent_names) ==
    SelectSeq(source_files, LAMBDA f : applies_to_agents(f, agent_names))

(***************************************************************************)
(* A HashMap<PathBuf, String> is a function from paths to contents.        *)
(***************************************************************************)
EmptyMap == [p \in {} |-> TextOf(<<>>)]

Insert(map, p, content) == (p :> content) @@ map

\* HashMap::extend: the entries of more replace those of map.
Extend(map, more) == more @@ map

\* file_utils.rs write_directory_files: every file is written (through a link,
\* to the link's target) after its parent directories are created.
write_directory_files(fs, files_to_write) ==
    LET targets == {Resolve(fs, p) : p \in DOMAIN files_to_write}
        written == [q \in targets |->
                       FileNode(files_to_write[CHOOSE p \in DOMAIN files_to_write :
                                                  Resolve(fs, p) = q])]
        parents == [d \in UNION {Ancestors(q) : q \in targets} |-> DirNode]
    IN  written @@ fs @@ parents

\* Path::display: the names joined by '/'.
RECURSIVE Display(_)
Display(p) ==
    IF p = <<>> THEN <<>>
    ELSE IF Len(p) = 1 THEN Head(p)
    ELSE Head(p) \o <<"/">> \o Display(Tail(p))

(***************************************************************************)
(* operations/source_reader.rs                                             *)
(***************************************************************************)
\* The file stems of the model in the byte order Vec::sort gives their paths.
SortedStems == <<"AGENTS", "a", "b", "c", "s">>

get_ai_rules_dir == <<AI_RULE_SOURCE_DIR>>

\* file_utils.rs find_files_by_extension: the regular files of dir with the
\* extension, sorted.
find_files_by_extension(fs, dir, ext) ==
    SelectSeq([i \in DOMAIN SortedStems |-> Join(dir, <<SortedStems[i], ext>>)],
              LAMBDA p : p \in ReadDir(fs, dir) /\ IsFile(fs, p))

get_md_files_in_ai_rules_dir(fs) ==
    IF ~Exists(fs, get_ai_rules_dir) \/ ~IsDir(fs, get_ai_rules_dir) THEN <<>>
    ELSE find_files_by_extension(fs, get_ai_rules_dir, MD_EXTENSION)

\* parse_source_files: the first file that does not parse fails the whole list.
parse_source_files(fs, paths) ==
    LET Collect(parsed) ==
            IF \E i \in DOMAIN parsed : ~parsed[i].ok THEN [ok |-> FALSE, source_files |-> <<>>]
            ELSE [ok |-> TRUE, source_files |-> [i \in DOMAIN parsed |-> parsed[i].source_file]]
    IN  Collect([i \in DOMAIN paths |-> from_file(fs, paths[i])])

find_source_files(fs) == parse_source_files(fs, get_md_files_in_ai_rules_dir(fs))

\* A test of the first characters of the file as they are, untrimmed.
is_pure_markdown_untrimmed(fs, file_path) ==
    LET content == ReadToString(fs, file_path).text IN
    ~(content # <<>> /\ Head(content) = FRONTMATTER_DELIMITER)

is_pure_markdown(fs, file_path) ==
    LET trimmed == TrimStart(ReadToString(fs, file_path).text) IN
    ~(trimmed # <<>> /\ Head(trimmed) = FRONTMATTER_DELIMITER)

detect_symlink_mode(fs) ==
    LET Single(md_files) ==
            /\ Len(md_files) = 1
            /\ FileName(md_files[1]) = AGENTS_MD_FILENAME
            /\ is_pure_markdown(fs, md_files[1])
    IN  Single(get_md_files_in_ai_rules_dir(fs))

(***************************************************************************)
(* operations/body_generator.rs and operations/optional_rules.rs           *)
(***************************************************************************)
generated_body_file_dir == <<AI_RULE_SOURCE_DIR, GENERATED_RULE_BODY_DIR>>

generated_body_file_reference_path(filename) ==
    <<AI_RULE_SOURCE_DIR, GENERATED_RULE_BODY_DIR, filename>>

generate_body_contents(source_files) ==
    [p \in {Join(generated_body_file_dir, get_body_file_name(source_files[i])) :
                i \in DOMAIN source_files} |->
        LET i == CHOOSE j \in DOMAIN source_files :
                     p = Join(generated_body_file_dir, get_body_file_name(source_files[j]))
        IN  ensure_trailing_newline(TextOf(source_files[i].body))]

\* One "@<path>\n" line.
ReferenceLine(path) == <<"@">> \o Display(path) \o <<NL>>

generate_required_rule_references(source_files) ==
    Flatten([i \in DOMAIN source_files |->
        IF source_files[i].front_matter.always_apply
        THEN ReferenceLine(generated_body_file_reference_path(get_body_file_name(source_files[i])))
        ELSE <<>>])

\* optional_rules_filename_for_agent: ai-rules-generated-optional-<agent>.md
optional_rules_filename_for_agent(agent_name) ==
    <<GENERATED_FILE_PREFIX, "optional-", agent_name, MD_EXTENSION>>

\* A reference document in which the optional index follows at once, with no
\* empty line between.
references_without_blank_line(source_files, agent_name) ==
    generate_required_rule_references(source_files)
    \o (IF \E i \in DOMAIN source_files : ~source_files[i].front_matter.always_apply
        THEN ReferenceLine(generated_body_file_reference_path(
                               optional_rules_filename_for_agent(agent_name)))
        ELSE <<>>)

generate_all_rule_references_for_agent(source_files, agent_name) ==
    LET has_optional_rules ==
            \E i \in DOMAIN source_files : ~source_files[i].front_matter.always_apply
    IN  generate_required_rule_references(source_files)
        \o (IF has_optional_rules
            THEN <<NL>> \o ReferenceLine(generated_body_file_reference_path(
                               optional_rules_filename_for_agent(agent_name)))
            ELSE <<>>)

\* templates/optional_rules.md: a header followed by the {{RULE_ENTRIES}} placeholder.
OPTIONAL_RULES_TEMPLATE == <<"# Optional Rules", NL, NL, "{{RULE_ENTRIES}}">>

\* An optional index with an entry for every rule, the required ones included.
optional_rules_content_of_all_rules(source_files) ==
    IF \A i \in DOMAIN source_files : source_files[i].front_matter.always_apply THEN <<>>
    ELSE <<"# Optional Rules", NL, NL>>
         \o Flatten([i \in DOMAIN source_files |->
                <<source_files[i].front_matter.description, ": ">>
                \o Display(generated_body_file_reference_path(get_body_file_name(source_files[i])))
                \o <<NL, NL>>])

generate_optional_rules_content(source_files) ==
    LET optional_files == SelectSeq(source_files, LAMBDA f : ~f.front_matter.always_apply)
        rule_entries == Flatten([i \in DOMAIN optional_files |->
            <<optional_files[i].front_matter.description, ": ">>
            \o Display(generated_body_file_reference_path(get_body_file_name(optional_files[i])))
            \o <<NL, NL>>])
    IN  IF optional_files = <<>> THEN <<>>
        ELSE Flatten([i \in DOMAIN OPTIONAL_RULES_TEMPLATE |->
                 IF OPTIONAL_RULES_TEMPLATE[i] = "{{RULE_ENTRIES}}" THEN rule_entries
                 ELSE <<OPTIONAL_RULES_TEMPLATE[i]>>])

\* generate_inlined_required_content: each required rule as an optional
\* "# <description>\n\n" header and its body, joined by one blank line.
generate_inlined_required_content(source_files) ==
    LET required == SelectSeq(source_files, LAMBDA f : f.front_matter.always_apply)
    IN  Flatten([i \in DOMAIN required |->
            (IF i > 1 THEN <<NL>> ELSE <<>>)
            \o (IF required[i].front_matter.description # ""
                THEN <<"# ", required[i].front_matter.description, NL, NL>> ELSE <<>>)
            \o ensure_trailing_newline(TextOf(required[i].body)).text])

(***************************************************************************)
(* JSON (serde_json::Value): a value is a record with its type tag t and   *)
(* its payload v; an object's payload is a function from its keys.         *)
(***************************************************************************)
JStr(s) == [t |-> "str", v |-> s]
JBool(b) == [t |-> "bool", v |-> b]
JArr(items) == [t |-> "arr", v |-> items]
JObj(members) == [t |-> "obj", v |-> Table(members)]
NoMembers == [key \in {} |-> JBool(FALSE)]
JEmpty == JObj(NoMembers)

is_object(value) == value.t = "obj"

HasKey(obj, key) == key \in DOMAIN obj.v

\* serde_json Map::insert
JInsert(obj, key, value) ==
    JObj([q \in (DOMAIN obj.v) \cup {key} |-> IF q = key THEN value ELSE obj.v[q]])

\* serde_json Map::remove
JRemove(obj, key) == JObj([q \in (DOMAIN obj.v) \ {key} |-> obj.v[q]])

\* Map::retain / Iterator::filter on the keys of an object.
JRetain(obj, Keep(_)) == JObj([q \in {r \in DOMAIN obj.v : Keep(r)} |-> obj.v[q]])

\* Value::get(key).and_then(as_object), or the empty object.
ObjectAt(value, key) ==
    IF is_object(value) /\ HasKey(value, key) /\ is_object(value.v[key])
    THEN value.v[key] ELSE JEmpty

MCP_SERVERS_FIELD == "mcpServers"

(***************************************************************************)
(* operations/mcp_reader.rs                                                *)
(***************************************************************************)
mcp_source_path == <<AI_RULE_SOURCE_DIR, MCP_JSON>>

\* McpServerConfig is an untagged enum: an entry with a string `command`, or
\* an entry with `type` "http" and a string `url`.
IsMcpServerConfig(server) ==
    /\ is_object(server)
    /\ \/ HasKey(server, "command") /\ server.v["command"].t = "str"
       \/ /\ HasKey(server, "type") /\ server.v["type"] = JStr("http")
          /\ HasKey(server, "url") /\ server.v["url"].t = "str"

\* serde_json::from_str::<McpConfig>
IsMcpConfig(content) ==
    /\ content.json # <<>>
    /\ is_object(content.json[1])
    /\ HasKey(content.json[1], MCP_SERVERS_FIELD)
    /\ is_object(content.json[1].v[MCP_SERVERS_FIELD])
    /\ \A name \in DOMAIN content.json[1].v[MCP_SERVERS_FIELD].v :
           IsMcpServerConfig(content.json[1].v[MCP_SERVERS_FIELD].v[name])

\* read_mcp_source_file_content: Ok(None), Ok(Some(content)) or Err.
read_mcp_source_file_content(fs) ==
    IF ~Exists(fs, mcp_source_path) THEN [ok |-> TRUE, value |-> None]
    ELSE IF ~IsMcpConfig(ReadToString(fs, mcp_source_path)) THEN [ok |-> FALSE, value |-> None]
    ELSE [ok |-> TRUE, value |-> Some(ReadToString(fs, mcp_source_path))]

read_mcp_config(fs) ==
    LET Formatted(r) ==
            IF r.ok /\ r.value # None
            THEN [ok |-> TRUE, value |-> Some(ensure_trailing_newline(r.value[1]))]
            ELSE r
    IN  Formatted(read_mcp_source_file_content(fs))

extract_mcp_servers_for_firebender(fs) ==
    LET Servers(r) ==
            IF r.ok /\ r.value # None
            THEN [ok |-> TRUE, value |-> Some(r.value[1].json[1].v[MCP_SERVERS_FIELD])]
            ELSE r
    IN  Servers(read_mcp_source_file_content(fs))

(***************************************************************************)
(* agents/mcp_generator.rs: ExternalMcpGenerator                           *)
(***************************************************************************)
\* generate_mcp: a source that does not read or validate yields no file.
ExternalMcp_generate_mcp(fs, output_path) ==
    LET Files(r) ==
            IF r.ok /\ r.value # None THEN Insert(EmptyMap, output_path, r.value[1]) ELSE EmptyMap
    IN  Files(read_mcp_config(fs))

\* A clean_mcp that leaves the generated MCP file in place.
keep_mcp_file(fs, output_path) == fs

ExternalMcp_clean_mcp(fs, output_path) ==
    IF Exists(fs, output_path) THEN RemoveFile(fs, output_path) ELSE fs

\* check_mcp: Err when the source does not validate.
ExternalMcp_check_mcp(fs, output_path) ==
    LET Compare(r) ==
            IF ~r.ok THEN [ok |-> FALSE, in_sync |-> FALSE]
            ELSE IF r.value # None
            THEN [ok |-> TRUE,
                  in_sync |-> Exists(fs, output_path)
                              /\ ReadToString(fs, output_path) = r.value[1]]
            ELSE [ok |-> TRUE, in_sync |-> ~Exists(fs, output_path)]
    IN  Compare(read_mcp_config(fs))

(***************************************************************************)
(* agents/gemini.rs: GeminiMcpGenerator                                    *)
(***************************************************************************)
GEMINI_SETTINGS_JSON == <<<<".gemini">>, <<"settings", ".json">>>>

\* str::ends_with("/mcp") on the urls of the model.
EndsWithMcp(url) == url \in {"https://host/mcp"}

\* A transformation that renames the url and leaves the command where it is.
rename_url_keeping_command(server) ==
    IF ~is_object(server) THEN server
    ELSE IF HasKey(server, "url") /\ server.v["url"].t = "str" /\ EndsWithMcp(server.v["url"].v)
    THEN JRemove(JRemove(JInsert(server, "httpUrl", server.v["url"]), "url"), "type")
    ELSE JRemove(server, "type")

transform_mcp_server(server) ==
    IF ~is_object(server) THEN server
    ELSE LET s == JRemove(server, "type") IN
         IF HasKey(s, "httpUrl") THEN JRemove(JRemove(s, "command"), "url")
         ELSE IF HasKey(s, "url") /\ s.v["url"].t = "str"
         THEN IF EndsWithMcp(s.v["url"].v)
              THEN JRemove(JRemove(JInsert(s, "httpUrl", s.v["url"]), "url"), "command")
              ELSE JRemove(s, "command")
         ELSE s

transform_mcp_servers(servers) ==
    IF ~is_object(servers) THEN servers
    ELSE JObj([name \in DOMAIN servers.v |-> transform_mcp_server(servers.v[name])])

\* A server name is a sequence of tokens; the generated ones start with the prefix.
prefix_server_names(servers) ==
    IF ~is_object(servers) THEN JEmpty
    ELSE JObj([name \in {<<GENERATED_FILE_PREFIX>> \o n : n \in DOMAIN servers.v} |->
                  servers.v[Tail(name)]])

\* The source's servers, transformed and prefixed (the first steps of generate_mcp
\* and of check_mcp).
GeminiExpectedServers(source) ==
    prefix_server_names(transform_mcp_servers(
        IF source.json # <<>> /\ is_object(source.json[1])
               /\ HasKey(source.json[1], MCP_SERVERS_FIELD)
        THEN source.json[1].v[MCP_SERVERS_FIELD] ELSE JEmpty))

GeminiMcp_generate_mcp(fs) ==
    LET Merge(target_json, user_servers, prefixed_servers) ==
            Insert(EmptyMap, GEMINI_SETTINGS_JSON,
                   JsonText(JInsert(target_json, MCP_SERVERS_FIELD,
                       JObj([name \in (DOMAIN user_servers.v) \cup (DOMAIN prefixed_servers.v) |->
                                IF name \in DOMAIN prefixed_servers.v
                                THEN prefixed_servers.v[name] ELSE user_servers.v[name]])), <<>>))
        Into(target_json, prefixed_servers) ==
            Merge(target_json,
                  JRetain(ObjectAt(target_json, MCP_SERVERS_FIELD),
                          LAMBDA name : ~StartsWithPrefix(name)),
                  prefixed_servers)
        Files(r) ==
            IF ~(r.ok /\ r.value # None) THEN EmptyMap
            ELSE Into(IF Exists(fs, GEMINI_SETTINGS_JSON)
                             /\ ReadToString(fs, GEMINI_SETTINGS_JSON).json # <<>>
                      THEN ReadToString(fs, GEMINI_SETTINGS_JSON).json[1] ELSE JEmpty,
                      GeminiExpectedServers(r.value[1]))
    IN  Files(read_mcp_config(fs))

\* clean_mcp: the target is rewritten without its generated servers.
GeminiMcp_clean_mcp(fs) ==
    LET Stripped(json) ==
            IF ~is_object(json) THEN fs
            ELSE WriteFile(fs, GEMINI_SETTINGS_JSON, JsonText(
                     IF HasKey(json, MCP_SERVERS_FIELD) /\ is_object(json.v[MCP_SERVERS_FIELD])
                     THEN JInsert(json, MCP_SERVERS_FIELD,
                              JRetain(json.v[MCP_SERVERS_FIELD],
                                      LAMBDA name : ~StartsWithPrefix(name)))
                     ELSE json, <<>>))
    IN  IF ~Exists(fs, GEMINI_SETTINGS_JSON) THEN fs
        ELSE Stripped(ReadToString(fs, GEMINI_SETTINGS_JSON).json[1])

GeminiMcp_check_mcp(fs) ==
    LET Compare(r, target_generated_servers) ==
            IF ~r.ok THEN [ok |-> FALSE, in_sync |-> FALSE]
            ELSE IF r.value = None
            THEN [ok |-> TRUE,
                  in_sync |-> ~Exists(fs, GEMINI_SETTINGS_JSON)
                              \/ DOMAIN target_generated_servers.v = {}]
            ELSE IF ~Exists(fs, GEMINI_SETTINGS_JSON) THEN [ok |-> TRUE, in_sync |-> FALSE]
            ELSE [ok |-> TRUE,
                  in_sync |-> target_generated_servers = GeminiExpectedServers(r.value[1])]
    IN  Compare(read_mcp_config(fs),
                JRetain(ObjectAt(ReadToString(fs, GEMINI_SETTINGS_JSON).json[1], MCP_SERVERS_FIELD),
                        LAMBDA name : StartsWithPrefix(name)))

(***************************************************************************)
(* utils/file_utils.rs: symbolic links and directory comparison            *)
(***************************************************************************)
\* "../" once for every '/' of from_path, then the target.
calculate_relative_path(from_path, target_relative_to_root) ==
    [i \in 1..(Len(from_path) - 1) |-> DOTDOT] \o target_relative_to_root

create_relative_symlink(fs, symlink_path, relative_target) ==
    LET Link(with_parent) ==
            Put(IF Exists(with_parent, symlink_path) \/ IsSymlink(with_parent, symlink_path)
                THEN RemoveFile(with_parent, symlink_path) ELSE with_parent,
                symlink_path, LinkNode(relative_target))
    IN  Link(IF Exists(fs, Parent(symlink_path)) THEN fs
             ELSE CreateDirAll(fs, Parent(symlink_path)))

\* A sequence of [link, target] pairs, created in order.
RECURSIVE CreateLinks(_, _)
CreateLinks(fs, links) ==
    IF links = <<>> THEN fs
    ELSE CreateLinks(create_relative_symlink(fs, Head(links).link, Head(links).target),
                     Tail(links))

agents_md_source_path == <<AI_RULE_SOURCE_DIR, AGENTS_MD_FILENAME>>

\* A symlink to ai-rules/AGENTS.md as seen from the project root, whatever the
\* directory of the link.
create_symlink_from_root(fs, output_path) ==
    IF ~Exists(fs, agents_md_source_path) THEN [fs |-> fs, created |-> FALSE]
    ELSE [fs |-> create_relative_symlink(fs, output_path, agents_md_source_path),
          created |-> TRUE]

\* create_symlink_to_agents_md: nothing is created when ai-rules/AGENTS.md is missing.
create_symlink_to_agents_md(fs, output_path) ==
    IF ~Exists(fs, agents_md_source_path) THEN [fs |-> fs, created |-> FALSE]
    ELSE [fs |-> create_relative_symlink(fs, output_path,
                     calculate_relative_path(output_path, agents_md_source_path)),
          created |-> TRUE]

\* Path::canonicalize().unwrap_or(path): only an existing path is canonicalized.
canonicalize_or(fs, p) ==
    IF Exists(fs, Normalize(<<>>, p)) THEN Normalize(<<>>, p) ELSE p

\* The link's target joined to the link's parent, canonicalized, is `expected`.
LinkPointsTo(fs, symlink_path, expected) ==
    canonicalize_or(fs, Parent(symlink_path) \o fs[symlink_path].t) = canonicalize_or(fs, expected)

check_agents_md_symlink(fs, symlink_path) ==
    /\ IsSymlink(fs, symlink_path)
    /\ LinkPointsTo(fs, symlink_path, agents_md_source_path)
    /\ Exists(fs, agents_md_source_path)

\* A match that asks only for the expected files, whatever else the directory
\* holds.
check_expected_files_present(fs, dir, expected_files) ==
    /\ Exists(fs, dir)
    /\ \A file_path \in DOMAIN expected_files :
           /\ IsFile(fs, file_path)
           /\ ReadToString(fs, file_path) = expected_files[file_path]

\* check_directory_exact_match: the directory holds exactly as many regular
\* files as expected, and every expected file exists with the expected content.
check_directory_exact_match(fs, dir, expected_files) ==
    /\ Exists(fs, dir)
    /\ Cardinality({p \in ReadDir(fs, dir) : IsFile(fs, p)}) = Cardinality(DOMAIN expected_files)
    /\ \A file_path \in DOMAIN expected_files :
           /\ IsFile(fs, file_path)
           /\ ReadToString(fs, file_path) = expected_files[file_path]

\* The paths of `paths` removed (each with fs::remove_file).
RemoveFiles(fs, paths) == Table([q \in (DOMAIN fs) \ paths |-> fs[q]])

\* The directories of `dirs` removed (each with fs::remove_dir_all).
RemoveDirs(fs, dirs) ==
    Table([q \in {r \in DOMAIN fs : \A d \in dirs : ~IsPrefixOf(d, r)} |-> fs[q]])

RECURSIVE SetToSeq(_)
SetToSeq(set) ==
    IF set = {} THEN <<>>
    ELSE LET x == CHOOSE y \in set : TRUE IN <<x>> \o SetToSeq(set \ {x})

(***************************************************************************)
(* operations/command_reader.rs                                            *)
(***************************************************************************)
commands_source_dir == <<AI_RULE_SOURCE_DIR, COMMANDS_DIR>>

\* find_command_files: the command files' paths (name = the path's file stem).
find_command_files(fs) ==
    IF ~Exists(fs, commands_source_dir) \/ ~IsDir(fs, commands_source_dir) THEN <<>>
    ELSE find_files_by_extension(fs, commands_source_dir, MD_EXTENSION)

CommandName(command_file) == FileStem(command_file)

\* "{name}-ai-rules.md"
CommandSymlinkName(command_file) ==
    CommandName(command_file) \o <<GENERATED_COMMAND_SUFFIX, MD_EXTENSION>>

\* name_str.ends_with("-ai-rules.md")
EndsWithCommandSuffix(name) ==
    Len(name) >= 2 /\ SubSeq(name, Len(name) - 1, Len(name)) = <<GENERATED_COMMAND_SUFFIX, MD_EXTENSION>>

create_command_symlinks(fs, target_dir) ==
    LET Link(command_file, from_path) ==
            [link |-> from_path, target |-> calculate_relative_path(from_path, command_file)]
        Links(command_files) ==
            CreateLinks(fs, [i \in DOMAIN command_files |->
                Link(command_files[i], Join(target_dir, CommandSymlinkName(command_files[i])))])
    IN  Links(find_command_files(fs))

remove_generated_command_symlinks(fs, target_dir) ==
    IF ~Exists(fs, target_dir) THEN fs
    ELSE RemoveFiles(fs, {p \in ReadDir(fs, target_dir) :
                              EndsWithCommandSuffix(FileName(p)) /\ IsSymlink(fs, p)})

check_command_symlinks_in_sync(fs, target_dir) ==
    LET Linked(symlink_path, command_file) ==
            IsSymlink(fs, symlink_path) /\ LinkPointsTo(fs, symlink_path, command_file)
        InSync(command_files) ==
            IF command_files = <<>>
            THEN \/ ~Exists(fs, target_dir)
                 \/ ~\E p \in ReadDir(fs, target_dir) :
                        EndsWithCommandSuffix(FileName(p)) /\ IsSymlink(fs, p)
            ELSE \A i \in DOMAIN command_files :
                     Linked(Join(target_dir, CommandSymlinkName(command_files[i])),
                            command_files[i])
    IN  InSync(find_command_files(fs))

create_command_symlinks_in_subdir(fs, target_dir, subdir) ==
    LET Link(command_file, from_path) ==
            [link |-> from_path, target |-> calculate_relative_path(from_path, command_file)]
        Links(command_files) ==
            CreateLinks(fs, [i \in DOMAIN command_files |->
                Link(command_files[i],
                     Join(Join(target_dir, subdir), FileName(command_files[i])))])
    IN  Links(find_command_files(fs))

remove_command_symlinks_in_subdir(fs, target_dir, subdir) ==
    IF Exists(fs, Join(target_dir, subdir)) THEN RemoveDirAll(fs, Join(target_dir, subdir))
    ELSE fs

check_command_symlinks_in_subdir_in_sync(fs, target_dir, subdir) ==
    LET Linked(symlink_path, command_file) ==
            IsSymlink(fs, symlink_path) /\ LinkPointsTo(fs, symlink_path, command_file)
        InSync(command_files, subdir_path) ==
            IF command_files = <<>> THEN ~Exists(fs, subdir_path)
            ELSE /\ Exists(fs, subdir_path)
                 /\ \A i \in DOMAIN command_files :
                        Linked(Join(subdir_path, FileName(command_files[i])), command_files[i])
                 /\ Cardinality({p \in ReadDir(fs, subdir_path) :
                                     IsSymlink(fs, p) \/ IsFile(fs, p)})
                        = Len(command_files)
    IN  InSync(find_command_files(fs), Join(target_dir, subdir))

(***************************************************************************)
(* operations/skills_reader.rs                                             *)
(***************************************************************************)
skills_source_dir == <<AI_RULE_SOURCE_DIR, SKILLS_DIR>>

\* find_skill_folders: the directories of ai-rules/skills that hold a SKILL.md.
find_skill_folders(fs) ==
    IF ~Exists(fs, skills_source_dir) \/ ~IsDir(fs, skills_source_dir) THEN {}
    ELSE {p \in ReadDir(fs, skills_source_dir) :
              IsDir(fs, p) /\ Exists(fs, Join(p, SKILL_FILENAME))}

\* "ai-rules-generated-{name}"
SkillSymlinkName(skill) == <<GENERATED_FILE_PREFIX>> \o FileName(skill)

create_skill_symlinks(fs, target_dir) ==
    LET Link(skill_folder, from_path) ==
            [link |-> from_path, target |-> calculate_relative_path(from_path, skill_folder)]
        Links(skill_folders) ==
            CreateLinks(fs, [i \in DOMAIN skill_folders |->
                Link(skill_folders[i], Join(target_dir, SkillSymlinkName(skill_folders[i])))])
    IN  Links(SetToSeq(find_skill_folders(fs)))

\* remove_generated_skill_symlinks: fs::remove_file on every entry with the
\* prefix; it fails on an entry that is a real directory.
remove_generated_skill_symlinks(fs, target_dir) ==
    IF ~Exists(fs, target_dir) THEN [fs |-> fs, ok |-> TRUE]
    ELSE LET generated == {p \in ReadDir(fs, target_dir) : StartsWithPrefix(FileName(p))} IN
         IF \E p \in generated : fs[p].k = "dir" THEN [fs |-> fs, ok |-> FALSE]
         ELSE [fs |-> RemoveFiles(fs, generated), ok |-> TRUE]

check_skill_symlinks_in_sync(fs, target_dir) ==
    LET Linked(symlink_path, skill) ==
            IsSymlink(fs, symlink_path) /\ LinkPointsTo(fs, symlink_path, skill)
        InSync(skill_folders) ==
            IF skill_folders = {}
            THEN \/ ~Exists(fs, target_dir)
                 \/ ~\E p \in ReadDir(fs, target_dir) :
                        StartsWithPrefix(FileName(p)) /\ IsSymlink(fs, p)
            ELSE /\ \A skill \in skill_folders :
                        Linked(Join(target_dir, SkillSymlinkName(skill)), skill)
                 /\ Exists(fs, target_dir) =>
                        ~\E p \in ReadDir(fs, target_dir) :
                             /\ StartsWithPrefix(FileName(p)) /\ IsSymlink(fs, p)
                             /\ ~\E skill \in skill_folders : FileName(skill) = Tail(FileName(p))
    IN  InSync(find_skill_folders(fs))

(***************************************************************************)
(* operations/claude_skills.rs                                             *)
(***************************************************************************)
CLAUDE_SKILLS_DIR == <<<<".claude">>, <<"skills">>>>

\* sanitize_skill_name on the descriptions of the model: lowercase, every run
\* of other characters becomes one hyphen.
sanitize_skill_name(name) ==
    CASE name = "Optional Rule" -> "optional-rule"
      [] name = "Rule" -> "rule"
      [] OTHER -> name

\* A removal that takes every directory of .claude/skills, whatever its name.
remove_every_skill(fs) ==
    IF ~Exists(fs, CLAUDE_SKILLS_DIR) THEN fs
    ELSE RemoveDirs(fs, {p \in ReadDir(fs, CLAUDE_SKILLS_DIR) : IsDir(fs, p)})

remove_generated_skills(fs) ==
    IF ~Exists(fs, CLAUDE_SKILLS_DIR) THEN fs
    ELSE RemoveDirs(fs, {p \in ReadDir(fs, CLAUDE_SKILLS_DIR) :
                             IsDir(fs, p) /\ StartsWithPrefix(FileName(p))})

generate_skill_file_content(rule) ==
    LET description == IF rule.front_matter.description = "" THEN rule.base_file_name
                       ELSE rule.front_matter.description
    IN  TextOf(<<FRONTMATTER_DELIMITER, NL, "name: ", sanitize_skill_name(description), NL,
                 "description: ", description, NL, FRONTMATTER_DELIMITER, NL, NL, "@">>
               \o Display(generated_body_file_reference_path(get_body_file_name(rule))))

generate_skills_for_optional_rules(source_files) ==
    LET optional_rules == SelectSeq(source_files, LAMBDA f : ~f.front_matter.always_apply) IN
    [p \in {<<CLAUDE_SKILLS_DIR[1], CLAUDE_SKILLS_DIR[2],
              <<GENERATED_FILE_PREFIX, optional_rules[i].base_file_name>>, SKILL_FILENAME>> :
                i \in DOMAIN optional_rules} |->
        generate_skill_file_content(
            optional_rules[CHOOSE i \in DOMAIN optional_rules :
                p[3] = <<GENERATED_FILE_PREFIX, optional_rules[i].base_file_name>>])]

check_skills_in_sync(fs, source_files) ==
    LET InSync(expected_skills, actual_generated_skill_dirs) ==
            IF DOMAIN expected_skills = {} THEN actual_generated_skill_dirs = {}
            ELSE /\ actual_generated_skill_dirs # {}
                 /\ Cardinality(actual_generated_skill_dirs) = Cardinality(DOMAIN expected_skills)
                 /\ \A expected_path \in DOMAIN expected_skills :
                        /\ IsFile(fs, expected_path)
                        /\ ReadToString(fs, expected_path) = expected_skills[expected_path]
    IN  InSync(generate_skills_for_optional_rules(source_files),
               IF Exists(fs, CLAUDE_SKILLS_DIR)
               THEN {p \in ReadDir(fs, CLAUDE_SKILLS_DIR) :
                         IsDir(fs, p) /\ StartsWithPrefix(FileName(p))}
               ELSE {})

(***************************************************************************)
(* agents/single_file_based.rs (goose, codex, copilot; shared by amp and   *)
(* gemini)                                                                 *)
(***************************************************************************)
SingleFile_clean_generated_files(fs, output_file) ==
    IF Exists(fs, output_file) \/ IsSymlink(fs, output_file) THEN RemoveFile(fs, output_file)
    ELSE fs

\* The references of every rule of source_files, for the agents that share AGENTS.md.
generate_all_rule_references(source_files) ==
    generate_all_rule_references_for_agent(source_files, AGENTS_MD_GROUP_NAME)

generate_agent_file_contents(source_files, output_file, agent_name) ==
    IF source_files # <<>>
    THEN Insert(EmptyMap, output_file,
                TextOf(generate_all_rule_references_for_agent(source_files, agent_name)))
    ELSE EmptyMap

check_in_sync(fs, source_files, output_file, agent_name) ==
    IF source_files = <<>> THEN ~Exists(fs, output_file)
    ELSE /\ Exists(fs, output_file)
         /\ ReadToString(fs, output_file)
                = generate_agent_file_contents(source_files, output_file, agent_name)[output_file]

AGENTS_MD_PATH == <<AGENTS_MD_FILENAME>>

\* SingleFileBasedGenerator::generate_agent_contents: every rule, unfiltered.
SingleFile_generate_agent_contents(source_files, output_file) ==
    IF source_files # <<>>
    THEN Insert(EmptyMap, output_file, TextOf(generate_all_rule_references(source_files)))
    ELSE EmptyMap

SingleFile_check_agent_contents(fs, source_files, output_file) ==
    IF source_files = <<>> THEN ~Exists(fs, output_file)
    ELSE /\ Exists(fs, output_file)
         /\ ReadToString(fs, output_file)
                = SingleFile_generate_agent_contents(source_files, output_file)[output_file]

(***************************************************************************)
(* agents/amp.rs and agents/gemini.rs                                      *)
(***************************************************************************)
Amp_generate_agent_contents(source_files) ==
    generate_agent_file_contents(
        filter_source_files_for_agent_group(source_files, AGENTS_MD_AGENTS),
        AGENTS_MD_PATH, AGENTS_MD_GROUP_NAME)

Amp_check_agent_contents(fs, source_files) ==
    check_in_sync(fs, filter_source_files_for_agent_group(source_files, AGENTS_MD_AGENTS),
                  AGENTS_MD_PATH, AGENTS_MD_GROUP_NAME)

GEMINI_AGENT_FILE == <<<<"GEMINI", ".md">>>>

Gemini_clean(fs) == GeminiMcp_clean_mcp(SingleFile_clean_generated_files(fs, GEMINI_AGENT_FILE))

Gemini_generate_agent_contents(source_files) ==
    generate_agent_file_contents(filter_source_files_for_agent(source_files, "gemini"),
                                 GEMINI_AGENT_FILE, "gemini")

Gemini_check_agent_contents(fs, source_files) ==
    check_in_sync(fs, filter_source_files_for_agent(source_files, "gemini"),
                  GEMINI_AGENT_FILE, "gemini")

(***************************************************************************)
(* agents/claude.rs                                                        *)
(***************************************************************************)
CLAUDE_MD == <<<<"CLAUDE", ".md">>>>

Claude_clean(fs) ==
    remove_generated_skills(
        IF Exists(fs, CLAUDE_MD) \/ IsSymlink(fs, CLAUDE_MD) THEN RemoveFile(fs, CLAUDE_MD) ELSE fs)

\* Only skills mode yields files: the inlined required rules and one skill per
\* optional rule.
Claude_generate_agent_contents(source_files, skills_mode) ==
    IF source_files # <<>> /\ skills_mode
    THEN Extend(Insert(EmptyMap, CLAUDE_MD, TextOf(generate_inlined_required_content(source_files))),
                generate_skills_for_optional_rules(source_files))
    ELSE EmptyMap

Claude_check_agent_contents(fs, source_files, skills_mode) ==
    /\ IF source_files = <<>> THEN ~Exists(fs, CLAUDE_MD)
       ELSE /\ Exists(fs, CLAUDE_MD)
            /\ ReadToString(fs, CLAUDE_MD) = TextOf(generate_inlined_required_content(source_files))
    /\ skills_mode => check_skills_in_sync(fs, source_files)

(***************************************************************************)
(* agents/cursor.rs                                                        *)
(***************************************************************************)
MDC_EXTENSION == ".mdc"

get_cursor_rules_dir == <<<<".cursor">>, <<"rules">>>>

Cursor_clean(fs) ==
    LET Unlink(cleared) ==
            IF Exists(cleared, AGENTS_MD_PATH) /\ IsSymlink(cleared, AGENTS_MD_PATH)
            THEN RemoveFile(cleared, AGENTS_MD_PATH) ELSE cleared
    IN  Unlink(IF Exists(fs, get_cursor_rules_dir) THEN RemoveDirAll(fs, get_cursor_rules_dir)
               ELSE fs)

\* patterns.join(", ")
RECURSIVE JoinPatterns(_)
JoinPatterns(patterns) ==
    IF Len(patterns) <= 1 THEN patterns
    ELSE <<Head(patterns), ", ">> \o JoinPatterns(Tail(patterns))

create_cursor_frontmatter(source_file) ==
    <<FRONTMATTER_DELIMITER, NL, "description: ", source_file.front_matter.description, NL>>
    \o (IF source_file.front_matter.file_matching_patterns # None
           /\ source_file.front_matter.file_matching_patterns[1] # <<>>
        THEN <<"globs: ">> \o JoinPatterns(source_file.front_matter.file_matching_patterns[1])
             \o <<NL>>
        ELSE <<>>)
    \o <<"alwaysApply: ", IF source_file.front_matter.always_apply THEN "true" ELSE "false",
         NL, FRONTMATTER_DELIMITER, NL, NL>>

generate_rule_file_content(source_file) ==
    ensure_trailing_newline(TextOf(create_cursor_frontmatter(source_file) \o source_file.body))

\* One .mdc file for every rule, required or optional.
Cursor_generate_agent_contents(source_files) ==
    [p \in {Join(get_cursor_rules_dir,
                 <<GENERATED_FILE_PREFIX, source_files[i].base_file_name, MDC_EXTENSION>>) :
                i \in DOMAIN source_files} |->
        generate_rule_file_content(
            source_files[CHOOSE i \in DOMAIN source_files :
                             source_files[i].base_file_name = FileName(p)[2]])]

Cursor_check_agent_contents(fs, source_files) ==
    IF source_files = <<>> THEN ~Exists(fs, get_cursor_rules_dir)
    ELSE check_directory_exact_match(fs, get_cursor_rules_dir,
                                     Cursor_generate_agent_contents(source_files))

(***************************************************************************)
(* agents/markdown_based.rs (cline, kilocode, roo)                         *)
(***************************************************************************)
DEFAULT_RULES_SUBDIR == <<"rules">>

get_rules_dir_path(agent_dir, rules_subdir) ==
    IF rules_subdir # None THEN <<agent_dir, rules_subdir[1]>> ELSE <<agent_dir>>

clean_markdown_agent_files(fs, rules_dir) ==
    IF Exists(fs, rules_dir) THEN RemoveDirAll(fs, rules_dir) ELSE fs

generate_markdown_agent_contents(source_files, rules_dir) ==
    LET Bodies(always) ==
            [p \in {Join(rules_dir, <<GENERATED_FILE_PREFIX, always[i].base_file_name,
                                      MD_EXTENSION>>) : i \in DOMAIN always} |->
                ensure_trailing_newline(TextOf(
                    always[CHOOSE i \in DOMAIN always :
                               always[i].base_file_name = FileName(p)[2]].body))]
        Files(bodies, optional_content) ==
            IF source_files = <<>> THEN EmptyMap
            ELSE IF optional_content # <<>>
            THEN Insert(bodies,
                        Join(rules_dir, <<GENERATED_FILE_PREFIX, "optional", MD_EXTENSION>>),
                        TextOf(optional_content))
            ELSE bodies
    IN  Files(Bodies(SelectSeq(source_files, LAMBDA f : f.front_matter.always_apply)),
              generate_optional_rules_content(source_files))

check_markdown_agent_sync(fs, source_files, rules_dir) ==
    IF source_files = <<>> THEN ~Exists(fs, rules_dir)
    ELSE check_directory_exact_match(fs, rules_dir,
                                     generate_markdown_agent_contents(source_files, rules_dir))

(***************************************************************************)
(* agents/firebender.rs                                                    *)
(***************************************************************************)
FIREBENDER_PATH == <<FIREBENDER_JSON>>
FIREBENDER_OVERLAY_JSON == <<"firebender-overlay", ".json">>
FIREBENDER_USE_CURSOR_RULES_FIELD == "useCursorRules"

\* A merge of the top level only: the overlay's value replaces the base's at
\* every key the overlay has.
merge_top_level(base, overlay) ==
    IF ~(is_object(base) /\ is_object(overlay)) THEN base
    ELSE JObj([key \in (DOMAIN base.v) \cup (DOMAIN overlay.v) |->
             IF key \in DOMAIN overlay.v THEN overlay.v[key] ELSE base.v[key]])

RECURSIVE merge_json_objects(_, _)
merge_json_objects(base, overlay) ==
    IF ~(is_object(base) /\ is_object(overlay)) THEN base
    ELSE JObj([key \in (DOMAIN base.v) \cup (DOMAIN overlay.v) |->
             IF key \notin DOMAIN overlay.v THEN base.v[key]
             ELSE IF key \in DOMAIN base.v /\ is_object(base.v[key]) /\ is_object(overlay.v[key])
             THEN merge_json_objects(base.v[key], overlay.v[key])
             ELSE overlay.v[key]])

\* finalize_firebender_config: the MCP servers of the source and the overlay
\* are merged in; an invalid MCP source or overlay is an error.
finalize_firebender_config(fs, firebender_config) ==
    LET overlay_path == <<AI_RULE_SOURCE_DIR, FIREBENDER_OVERLAY_JSON>>
        Written(mcp_ok, with_mcp) ==
            IF ~mcp_ok THEN [ok |-> FALSE, content |-> TextOf(<<>>)]
            ELSE IF ~Exists(fs, overlay_path)
            THEN [ok |-> TRUE, content |-> ensure_trailing_newline(JsonText(with_mcp, <<>>))]
            ELSE IF ReadToString(fs, overlay_path).json = <<>>
            THEN [ok |-> FALSE, content |-> TextOf(<<>>)]
            ELSE [ok |-> TRUE,
                  content |-> ensure_trailing_newline(JsonText(
                      merge_json_objects(with_mcp, ReadToString(fs, overlay_path).json[1]),
                      <<>>))]
        WithMcp(mcp) ==
            Written(mcp.ok,
                    IF mcp.ok /\ mcp.value # None
                    THEN JInsert(firebender_config, MCP_SERVERS_FIELD, mcp.value[1])
                    ELSE firebender_config)
    IN  WithMcp(extract_mcp_servers_for_firebender(fs))

RulesPathsEntry(path) == JObj([key \in {"rulesPaths"} |-> JStr(Display(path))])

generate_firebender_json_with_overlay(fs, source_files) ==
    LET Entry(rule, entry) ==
            IF rule.front_matter.always_apply THEN entry
            ELSE JInsert(entry, "filePathMatches",
                     JArr([j \in DOMAIN rule.front_matter.file_matching_patterns[1] |->
                              JStr(rule.front_matter.file_matching_patterns[1][j])]))
        RuleEntries(listed) ==
            [i \in DOMAIN listed |->
                Entry(listed[i], RulesPathsEntry(
                    generated_body_file_reference_path(get_body_file_name(listed[i]))))]
        Rules(rule_entries) ==
            IF \E i \in DOMAIN source_files : ~source_files[i].front_matter.always_apply
            THEN Append(rule_entries, RulesPathsEntry(generated_body_file_reference_path(
                            optional_rules_filename_for_agent("firebender"))))
            ELSE rule_entries
        WithCommands(config, command_files) ==
            finalize_firebender_config(fs,
                IF command_files # <<>>
                THEN JInsert(config, "commands", JArr([i \in DOMAIN command_files |->
                         JObj([key \in {"name", "path"} |->
                                  IF key = "name" THEN JStr(CommandName(command_files[i]))
                                  ELSE JStr(Display(command_files[i]))])]))
                ELSE config)
        Config(rules) ==
            JObj([key \in {"rules", FIREBENDER_USE_CURSOR_RULES_FIELD} |->
                     IF key = "rules" THEN JArr(rules) ELSE JBool(FALSE)])
    IN  WithCommands(
            Config(Rules(RuleEntries(SelectSeq(source_files, LAMBDA f :
                \/ f.front_matter.always_apply
                \/ /\ f.front_matter.file_matching_patterns # None
                   /\ f.front_matter.file_matching_patterns[1] # <<>>)))),
            find_command_files(fs))

generate_firebender_symlink_content(fs) ==
    finalize_firebender_config(fs,
        JObj([key \in {"rules", FIREBENDER_USE_CURSOR_RULES_FIELD} |->
                 IF key = "rules" THEN JArr(<<RulesPathsEntry(agents_md_source_path)>>)
                 ELSE JBool(FALSE)]))

Firebender_clean(fs) ==
    IF Exists(fs, FIREBENDER_PATH) THEN RemoveFile(fs, FIREBENDER_PATH) ELSE fs

\* A failure to build the document is only warned about: no file is produced.
Firebender_generate_agent_contents(fs, source_files) ==
    LET Files(filtered_source_files, generated) ==
            IF filtered_source_files = <<>> \/ ~generated.ok THEN EmptyMap
            ELSE Insert(EmptyMap, FIREBENDER_PATH, generated.content)
        Generated(filtered_source_files) ==
            Files(filtered_source_files,
                  generate_firebender_json_with_overlay(fs, filtered_source_files))
    IN  Generated(filter_source_files_for_agent(source_files, "firebender"))

file_matches_expected(fs, file_path, expected_content) ==
    Exists(fs, file_path) /\ ReadToString(fs, file_path) = expected_content

Firebender_check_agent_contents(fs, source_files) ==
    LET Matches(filtered_source_files, expected_files) ==
            IF filtered_source_files = <<>> THEN ~Exists(fs, FIREBENDER_PATH)
            ELSE /\ FIREBENDER_PATH \in DOMAIN expected_files
                 /\ file_matches_expected(fs, FIREBENDER_PATH, expected_files[FIREBENDER_PATH])
        Checked(filtered_source_files) ==
            Matches(filtered_source_files,
                    Firebender_generate_agent_contents(fs, filtered_source_files))
    IN  Checked(filter_source_files_for_agent(source_files, "firebender"))

\* check_symlink: Err when the expected document cannot be built.
Firebender_check_symlink(fs) ==
    LET Matches(expected) ==
            IF ~expected.ok THEN [ok |-> FALSE, in_sync |-> FALSE]
            ELSE [ok |-> TRUE,
                  in_sync |-> file_matches_expected(fs, FIREBENDER_PATH, expected.content)]
    IN  IF ~Exists(fs, FIREBENDER_PATH) \/ ~Exists(fs, agents_md_source_path)
        THEN [ok |-> TRUE, in_sync |-> FALSE]
        ELSE Matches(generate_firebender_symlink_content(fs))

\* generate_symlink: firebender.json is written as a regular file.
Firebender_generate_symlink(fs) ==
    LET Written(content) ==
            IF ~content.ok THEN [fs |-> fs, ok |-> FALSE]
            ELSE [fs |-> WriteFile(fs, FIREBENDER_PATH, content.content), ok |-> TRUE]
    IN  IF ~Exists(fs, agents_md_source_path) THEN [fs |-> fs, ok |-> TRUE]
        ELSE Written(generate_firebender_symlink_content(fs))

(***************************************************************************)
(* agents/registry.rs: the tools by name, with what each tool's generator  *)
(* methods dispatch to.                                                    *)
(***************************************************************************)
ToolKind ==
    [claude |-> "claude", cline |-> "markdown", cursor |-> "cursor", firebender |-> "firebender",
     goose |-> "single", amp |-> "amp", codex |-> "single", copilot |-> "single",
     gemini |-> "gemini", kilocode |-> "markdown", roo |-> "markdown"]

AllTools == DOMAIN ToolKind

get_tool(name) == IF name \in AllTools THEN Some(ToolKind[name]) ELSE None

\* The rules directory of a markdown-based tool.
RulesDir(agent) ==
    CASE agent = "cline" -> get_rules_dir_path(<<".clinerules">>, None)
      [] agent = "kilocode" -> get_rules_dir_path(<<".kilocode">>, Some(DEFAULT_RULES_SUBDIR))
      [] agent = "roo" -> get_rules_dir_path(<<".roo">>, Some(DEFAULT_RULES_SUBDIR))

\* Where a tool's link to ai-rules/AGENTS.md lives in symlink mode.
SymlinkPath(agent) ==
    CASE ToolKind[agent] = "claude" -> CLAUDE_MD
      [] ToolKind[agent] = "gemini" -> GEMINI_AGENT_FILE
      [] ToolKind[agent] = "markdown" -> Join(RulesDir(agent), AGENTS_MD_FILENAME)
      [] OTHER -> AGENTS_MD_PATH

Tool_clean(fs, agent) ==
    CASE ToolKind[agent] = "claude" -> Claude_clean(fs)
      [] ToolKind[agent] = "markdown" -> clean_markdown_agent_files(fs, RulesDir(agent))
      [] ToolKind[agent] = "cursor" -> Cursor_clean(fs)
      [] ToolKind[agent] = "firebender" -> Firebender_clean(fs)
      [] ToolKind[agent] = "gemini" -> Gemini_clean(fs)
      [] OTHER -> SingleFile_clean_generated_files(fs, AGENTS_MD_PATH)

Tool_generate_agent_contents(fs, agent, source_files, skills_mode) ==
    CASE ToolKind[agent] = "claude" -> Claude_generate_agent_contents(source_files, skills_mode)
      [] ToolKind[agent] = "markdown" ->
             generate_markdown_agent_contents(source_files, RulesDir(agent))
      [] ToolKind[agent] = "cursor" -> Cursor_generate_agent_contents(source_files)
      [] ToolKind[agent] = "firebender" -> Firebender_generate_agent_contents(fs, source_files)
      [] ToolKind[agent] = "gemini" -> Gemini_generate_agent_contents(source_files)
      [] ToolKind[agent] = "amp" -> Amp_generate_agent_contents(source_files)
      [] OTHER -> SingleFile_generate_agent_contents(source_files, AGENTS_MD_PATH)

Tool_check_agent_contents(fs, agent, source_files, skills_mode) ==
    CASE ToolKind[agent] = "claude" -> Claude_check_agent_contents(fs, source_files, skills_mode)
      [] ToolKind[agent] = "markdown" -> check_markdown_agent_sync(fs, source_files, RulesDir(agent))
      [] ToolKind[agent] = "cursor" -> Cursor_check_agent_contents(fs, source_files)
      [] ToolKind[agent] = "firebender" -> Firebender_check_agent_contents(fs, source_files)
      [] ToolKind[agent] = "gemini" -> Gemini_check_agent_contents(fs, source_files)
      [] ToolKind[agent] = "amp" -> Amp_check_agent_contents(fs, source_files)
      [] OTHER -> SingleFile_check_agent_contents(fs, source_files, AGENTS_MD_PATH)

Tool_check_symlink(fs, agent) ==
    IF ToolKind[agent] = "firebender" THEN Firebender_check_symlink(fs)
    ELSE [ok |-> TRUE, in_sync |-> check_agents_md_symlink(fs, SymlinkPath(agent))]

Tool_generate_symlink(fs, agent) ==
    IF ToolKind[agent] = "firebender" THEN Firebender_generate_symlink(fs)
    ELSE [fs |-> create_symlink_to_agents_md(fs, SymlinkPath(agent)).fs, ok |-> TRUE]

\* mcp_generator(): "external" with its output path, "gemini", or none.
mcp_generator(agent) ==
    CASE agent = "claude" -> Some([kind |-> "external", path |-> <<<<".mcp", ".json">>>>])
      [] agent = "cursor" -> Some([kind |-> "external", path |-> <<<<".cursor">>, MCP_JSON>>])
      [] agent = "roo" -> Some([kind |-> "external", path |-> <<<<".roo">>, MCP_JSON>>])
      [] agent = "gemini" -> Some([kind |-> "gemini", path |-> GEMINI_SETTINGS_JSON])
      [] OTHER -> None

\* command_generator(): the target directory and the optional subdirectory.
command_generator(agent) ==
    CASE agent = "claude" ->
             Some([target_dir |-> <<<<".claude">>, <<"commands">>>>, subdir |-> Some(<<"ai-rules">>)])
      [] agent = "cursor" ->
             Some([target_dir |-> <<<<".cursor">>, <<"commands">>>>, subdir |-> Some(<<"ai-rules">>)])
      [] agent = "amp" -> Some([target_dir |-> <<<<".agents">>, <<"commands">>>>, subdir |-> None])
      [] OTHER -> None

\* skills_generator(): the target directory.
skills_generator(agent) ==
    CASE agent = "claude" -> Some(CLAUDE_SKILLS_DIR)
      [] agent = "cursor" -> Some(<<<<".cursor">>, <<"skills">>>>)
      [] agent = "amp" -> Some(<<<<".agents">>, <<"skills">>>>)
      [] agent = "firebender" -> Some(<<<<".firebender">>, <<"skills">>>>)
      [] OTHER -> None

generate_mcp(fs, agent) ==
    IF mcp_generator(agent) = None THEN EmptyMap
    ELSE IF mcp_generator(agent)[1].kind = "gemini" THEN GeminiMcp_generate_mcp(fs)
    ELSE ExternalMcp_generate_mcp(fs, mcp_generator(agent)[1].path)

clean_mcp(fs, agent) ==
    IF mcp_generator(agent) = None THEN fs
    ELSE IF mcp_generator(agent)[1].kind = "gemini" THEN GeminiMcp_clean_mcp(fs)
    ELSE ExternalMcp_clean_mcp(fs, mcp_generator(agent)[1].path)

generate_command_symlinks(fs, agent) ==
    IF command_generator(agent) = None THEN fs
    ELSE LET g == command_generator(agent)[1] IN
         IF g.subdir # None THEN create_command_symlinks_in_subdir(fs, g.target_dir, g.subdir[1])
         ELSE create_command_symlinks(fs, g.target_dir)

clean_commands(fs, agent) ==
    IF command_generator(agent) = None THEN fs
    ELSE LET g == command_generator(agent)[1] IN
         IF g.subdir # None THEN remove_command_symlinks_in_subdir(fs, g.target_dir, g.subdir[1])
         ELSE remove_generated_command_symlinks(fs, g.target_dir)

check_commands(fs, agent) ==
    LET g == command_generator(agent)[1] IN
    IF g.subdir # None THEN check_command_symlinks_in_subdir_in_sync(fs, g.target_dir, g.subdir[1])
    ELSE check_command_symlinks_in_sync(fs, g.target_dir)

(***************************************************************************)
(* operations/legacy_cleaner.rs                                            *)
(***************************************************************************)
LEGACY_AGENT_DIRS ==
    <<[agent_dir |-> <<".roo">>, rules_subdir |-> Some(<<"rules">>)],
      [agent_dir |-> <<".clinerules">>, rules_subdir |-> None],
      [agent_dir |-> <<".kilocode">>, rules_subdir |-> Some(<<"rules">>)]>>

remove_generated_files_from_directory(fs, dir) ==
    IF ~Exists(fs, dir) THEN fs
    ELSE RemoveFiles(fs, {p \in ReadDir(fs, dir) : IsFile(fs, p) /\ StartsWithPrefix(FileName(p))})

remove_directory_if_empty(fs, dir) ==
    IF Exists(fs, dir) /\ ReadDir(fs, dir) = {} THEN RemoveFile(fs, dir) ELSE fs

RECURSIVE CleanLegacyDirs(_, _)
CleanLegacyDirs(fs, dirs) ==
    LET CleanAgentDir(rules_cleaned, agent_path) ==
            IF Exists(rules_cleaned, agent_path) /\ IsDir(rules_cleaned, agent_path)
            THEN remove_directory_if_empty(rules_cleaned, agent_path)
            ELSE rules_cleaned
        CleanRulesDir(rules_path) ==
            IF Exists(fs, rules_path) /\ IsDir(fs, rules_path)
            THEN remove_directory_if_empty(
                     remove_generated_files_from_directory(fs, rules_path), rules_path)
            ELSE fs
    IN  IF dirs = <<>> THEN fs
        ELSE CleanLegacyDirs(
                 CleanAgentDir(
                     CleanRulesDir(get_rules_dir_path(Head(dirs).agent_dir,
                                                      Head(dirs).rules_subdir)),
                     <<Head(dirs).agent_dir>>),
                 Tail(dirs))

clean_legacy_agent_directories(fs) == CleanLegacyDirs(fs, LEGACY_AGENT_DIRS)

(***************************************************************************)
(* operations/cleaner.rs                                                   *)
(***************************************************************************)
LEGACY_FILE_NAMES == <<<<".goosehints">>>>
LEGACY_DIRECTORIES == <<GENERATED_RULE_BODY_DIR>>

\* The registered tools among the agents, in the order given.
KnownTools(agents) == SelectSeq(agents, LAMBDA a : get_tool(a) # None)

\* Result<()>: the file system an operation leaves, and whether it returned Ok.
Ok(fs) == [fs |-> fs, ok |-> TRUE]

\* Each loop runs over the tools in order and ends at the first error (`?`).
RECURSIVE CleanTools(_, _)
CleanTools(r, agents) ==
    IF ~r.ok \/ agents = <<>> THEN r
    ELSE CleanTools(Ok(Tool_clean(r.fs, Head(agents))), Tail(agents))

RECURSIVE CleanMcp(_, _)
CleanMcp(r, agents) ==
    IF ~r.ok \/ agents = <<>> THEN r
    ELSE CleanMcp(Ok(clean_mcp(r.fs, Head(agents))), Tail(agents))

RECURSIVE CleanCommands(_, _)
CleanCommands(r, agents) ==
    IF ~r.ok \/ agents = <<>> THEN r
    ELSE CleanCommands(Ok(clean_commands(r.fs, Head(agents))), Tail(agents))

RECURSIVE CleanSkills(_, _)
CleanSkills(r, agents) ==
    IF ~r.ok \/ agents = <<>> THEN r
    ELSE IF skills_generator(Head(agents)) = None THEN CleanSkills(r, Tail(agents))
    ELSE CleanSkills(remove_generated_skill_symlinks(r.fs, skills_generator(Head(agents))[1]),
                     Tail(agents))

\* A clean that leaves the generated body directory in place.
KeepGeneratedBodyDir(fs) == fs

\* clean_generated_files, first step: the generated body directory goes, with
\* everything in it.
RemoveGeneratedBodyDir(fs) ==
    IF Exists(fs, generated_body_file_dir) THEN RemoveDirAll(fs, generated_body_file_dir) ELSE fs

clean_generated_files(fs, agents) ==
    LET NoLegacyDirs(no_bodies) ==
            IF Exists(no_bodies, LEGACY_DIRECTORIES)
            THEN RemoveDirAll(no_bodies, LEGACY_DIRECTORIES) ELSE no_bodies
        NoLegacyFiles(no_legacy_dirs) ==
            IF Exists(no_legacy_dirs, LEGACY_FILE_NAMES)
            THEN RemoveFile(no_legacy_dirs, LEGACY_FILE_NAMES) ELSE no_legacy_dirs
        CleanAgents(no_legacy, tools) ==
            CleanSkills(CleanCommands(CleanMcp(CleanTools(Ok(no_legacy), tools), tools), tools),
                        tools)
    IN  CleanAgents(clean_legacy_agent_directories(
                        NoLegacyFiles(NoLegacyDirs(RemoveGeneratedBodyDir(fs)))),
                    KnownTools(agents))

(***************************************************************************)
(* commands/generate.rs                                                    *)
(***************************************************************************)
RECURSIVE GenerateSymlinks(_, _)
GenerateSymlinks(r, agents) ==
    IF ~r.ok \/ agents = <<>> THEN r
    ELSE GenerateSymlinks(Tool_generate_symlink(r.fs, Head(agents)), Tail(agents))

\* The files of the agents, in order: a later agent's file replaces an earlier
\* agent's file at the same path.
RECURSIVE CollectAgentFiles(_, _, _, _, _)
CollectAgentFiles(fs, files, agents, source_files, skills_mode) ==
    IF agents = <<>> THEN files
    ELSE CollectAgentFiles(fs,
             Extend(files, Tool_generate_agent_contents(fs, Head(agents), source_files, skills_mode)),
             Tail(agents), source_files, skills_mode)

\* A collection that takes rule files that do not parse for no rules at all.
collect_ignoring_parse_errors(fs, agents, skills_mode) ==
    [ok |-> TRUE, directory_files_to_write |-> EmptyMap]

collect_all_files_for_directory(fs, agents, skills_mode) ==
    LET Collected(found) ==
            IF ~found.ok THEN [ok |-> FALSE, directory_files_to_write |-> EmptyMap]
            ELSE IF found.source_files = <<>>
            THEN [ok |-> TRUE, directory_files_to_write |-> EmptyMap]
            ELSE [ok |-> TRUE,
                  directory_files_to_write |->
                      CollectAgentFiles(fs, generate_body_contents(found.source_files),
                                        KnownTools(agents), found.source_files, skills_mode)]
    IN  Collected(find_source_files(fs))

RECURSIVE CollectMcpFiles(_, _, _)
CollectMcpFiles(fs, files, agents) ==
    IF agents = <<>> THEN files
    ELSE CollectMcpFiles(fs, Extend(files, generate_mcp(fs, Head(agents))), Tail(agents))

RECURSIVE GenerateCommands(_, _)
GenerateCommands(r, agents) ==
    IF ~r.ok \/ agents = <<>> THEN r
    ELSE GenerateCommands(Ok(generate_command_symlinks(r.fs, Head(agents))), Tail(agents))

RECURSIVE GenerateSkills(_, _)
GenerateSkills(r, agents) ==
    IF ~r.ok \/ agents = <<>> THEN r
    ELSE IF skills_generator(Head(agents)) = None THEN GenerateSkills(r, Tail(agents))
    ELSE GenerateSkills(Ok(create_skill_symlinks(r.fs, skills_generator(Head(agents))[1])),
                        Tail(agents))

\* generate_files: the file system it leaves and whether it returned Ok. An
\* error leaves what was written before it.
generate_files(fs, agents, command_agents, skills_mode) ==
    LET WriteRules(cleaned, file_collection) ==
            IF ~file_collection.ok THEN [fs |-> cleaned.fs, ok |-> FALSE]
            ELSE Ok(write_directory_files(cleaned.fs, file_collection.directory_files_to_write))
        Rules(cleaned) ==
            IF detect_symlink_mode(cleaned.fs) THEN GenerateSymlinks(cleaned, KnownTools(agents))
            ELSE WriteRules(cleaned,
                            collect_all_files_for_directory(cleaned.fs, agents, skills_mode))
        Rest(rules_written) ==
            IF ~rules_written.ok THEN rules_written
            ELSE GenerateSkills(
                     GenerateCommands(
                         Ok(write_directory_files(rules_written.fs,
                                CollectMcpFiles(rules_written.fs, EmptyMap, KnownTools(agents)))),
                         KnownTools(command_agents)),
                     KnownTools(agents))
        Generated(cleaned) == IF ~cleaned.ok THEN cleaned ELSE Rest(Rules(cleaned))
    IN  Generated(clean_generated_files(fs, agents))

(***************************************************************************)
(* commands/status.rs                                                      *)
(***************************************************************************)
check_body_files(fs, source_files) ==
    IF source_files = <<>> THEN ~Exists(fs, generated_body_file_dir)
    ELSE check_directory_exact_match(fs, generated_body_file_dir,
                                     generate_body_contents(source_files))

check_agent_files(fs, agent_name, source_files, is_symlink_mode, skills_mode) ==
    IF get_tool(agent_name) = None THEN [ok |-> TRUE, in_sync |-> TRUE]
    ELSE IF is_symlink_mode THEN Tool_check_symlink(fs, agent_name)
    ELSE [ok |-> TRUE,
          in_sync |-> Tool_check_agent_contents(fs, agent_name, source_files, skills_mode)]

check_mcp_files(fs, agent_name) ==
    IF get_tool(agent_name) = None \/ mcp_generator(agent_name) = None
    THEN [ok |-> TRUE, in_sync |-> TRUE]
    ELSE IF mcp_generator(agent_name)[1].kind = "gemini" THEN GeminiMcp_check_mcp(fs)
    ELSE ExternalMcp_check_mcp(fs, mcp_generator(agent_name)[1].path)

check_command_files(fs, agent_name) ==
    IF get_tool(agent_name) = None \/ command_generator(agent_name) = None
    THEN [ok |-> TRUE, in_sync |-> TRUE]
    ELSE [ok |-> TRUE, in_sync |-> check_commands(fs, agent_name)]

check_skill_files(fs, agent_name) ==
    IF get_tool(agent_name) = None \/ skills_generator(agent_name) = None
    THEN [ok |-> TRUE, in_sync |-> TRUE]
    ELSE [ok |-> TRUE,
          in_sync |-> check_skill_symlinks_in_sync(fs, skills_generator(agent_name)[1])]

\* One of the four loops over the agents: an agent already out of sync is not
\* checked again, and the first check that fails with an error ends the loop.
\* `which` selects the check the loop runs.
RECURSIVE CheckLoop(_, _, _, _, _, _, _)
CheckLoop(fs, statuses, agents, which, source_files, is_symlink_mode, skills_mode) ==
    LET Record(r) ==
            IF ~r.ok THEN [ok |-> FALSE, statuses |-> statuses]
            ELSE CheckLoop(fs, [statuses EXCEPT ![Head(agents)] = r.in_sync], Tail(agents),
                           which, source_files, is_symlink_mode, skills_mode)
    IN  IF agents = <<>> THEN [ok |-> TRUE, statuses |-> statuses]
        ELSE IF ~statuses[Head(agents)]
        THEN CheckLoop(fs, statuses, Tail(agents), which, source_files, is_symlink_mode,
                       skills_mode)
        ELSE Record(CASE which = "agent" -> check_agent_files(fs, Head(agents), source_files,
                                                              is_symlink_mode, skills_mode)
                      [] which = "mcp" -> check_mcp_files(fs, Head(agents))
                      [] which = "command" -> check_command_files(fs, Head(agents))
                      [] which = "skill" -> check_skill_files(fs, Head(agents)))

\* The four loops of check_project_status, in order: each runs CheckLoop over its
\* agents with the statuses the loops before it left, and an error ends them all.
RECURSIVE CheckPhases(_, _, _, _, _, _)
CheckPhases(fs, checked, phases, source_files, is_symlink_mode, skills_mode) ==
    IF ~checked.ok \/ phases = <<>> THEN checked
    ELSE CheckPhases(fs,
                     CheckLoop(fs, checked.statuses, Head(phases).agents, Head(phases).which,
                               source_files, is_symlink_mode, skills_mode),
                     Tail(phases), source_files, is_symlink_mode, skills_mode)

\* check_project_status for one directory: Err (ok = FALSE), or the ProjectStatus.
check_project_status(fs, agents, command_agents, skills_mode) ==
    LET all_agents == Range(agents) \cup Range(command_agents)
        initial == [agent \in all_agents |-> TRUE]
        phases == <<[which |-> "agent", agents |-> agents],
                    [which |-> "mcp", agents |-> agents],
                    [which |-> "command", agents |-> command_agents],
                    [which |-> "skill", agents |-> agents]>>
        ProjectStatus(ok, body_files_out_of_sync, agent_statuses, has_ai_rules) ==
            [ok |-> ok, body_files_out_of_sync |-> body_files_out_of_sync,
             agent_statuses |-> agent_statuses, has_ai_rules |-> has_ai_rules]
        Report(is_symlink_mode, found, has_ai_rules, checked) ==
            IF ~found.ok THEN ProjectStatus(FALSE, FALSE, initial, has_ai_rules)
            ELSE IF ~is_symlink_mode /\ ~check_body_files(fs, found.source_files)
            THEN ProjectStatus(TRUE, TRUE, [agent \in all_agents |-> FALSE], has_ai_rules)
            ELSE IF ~checked.ok THEN ProjectStatus(FALSE, FALSE, initial, has_ai_rules)
            ELSE ProjectStatus(TRUE, FALSE, checked.statuses, has_ai_rules)
        Checked(is_symlink_mode, found) ==
            Report(is_symlink_mode, found,
                   is_symlink_mode \/ (found.ok /\ found.source_files # <<>>),
                   CheckPhases(fs, [ok |-> TRUE, statuses |-> initial], phases,
                               found.source_files, is_symlink_mode, skills_mode))
        Found(is_symlink_mode) ==
            Checked(is_symlink_mode,
                    IF is_symlink_mode THEN [ok |-> TRUE, source_files |-> <<>>]
                    ELSE find_source_files(fs))
    IN  Found(detect_symlink_mode(fs))

(***************************************************************************)
(* The documents and projects of the model                                 *)
(***************************************************************************)
\* Rule documents a user may write.
DocPlain == <<"# Title", NL, "plain text">>
DocRequired ==
    <<FRONTMATTER_DELIMITER, NL, "description:", "Rule", NL, "alwaysApply:", "true", NL,
      FRONTMATTER_DELIMITER, NL, "required text", NL>>
DocOptional ==
    <<FRONTMATTER_DELIMITER, NL, "description:", "Optional Rule", NL, "alwaysApply:", "false", NL,
      "fileMatching:", "*.rs", NL, FRONTMATTER_DELIMITER, NL, "optional text", NL>>
DocBlocked ==
    <<FRONTMATTER_DELIMITER, NL, "alwaysApply:", "true", NL, "blockedAgents:", "Cursor", "amp", NL,
      FRONTMATTER_DELIMITER, NL, "blocked text", NL>>
\* No alwaysApply: the frontmatter does not deserialize.
DocBroken ==
    <<FRONTMATTER_DELIMITER, NL, "description:", "Rule", NL, FRONTMATTER_DELIMITER, NL, "text", NL>>

\* Frontmatter after leading whitespace.
DocIndented == <<" ", NL>> \o DocRequired

RuleDocs == {DocPlain, DocRequired, DocOptional, DocBlocked, DocBroken, DocIndented}

RuleStems == {"AGENTS", "a", "b"}

RulePath(stem) == <<AI_RULE_SOURCE_DIR, <<stem, MD_EXTENSION>>>>

\* MCP sources: a command server, an http server, and a server of neither shape.
McpDoc(servers) == JsonText(JObj([key \in {MCP_SERVERS_FIELD} |-> JObj(servers)]), <<>>)

CommandServer == JObj([key \in {"command"} |-> JStr("npx")])
HttpServer ==
    JObj([key \in {"type", "url"} |-> IF key = "type" THEN JStr("http") ELSE JStr("https://host/mcp")])
UnknownServer == JObj([key \in {"url"} |-> JStr("https://host/mcp")])

McpValid == McpDoc([name \in {<<"cmd">>, <<"web">>} |->
                       IF name = <<"cmd">> THEN CommandServer ELSE HttpServer])
McpUnknownShape == McpDoc([name \in {<<"odd">>} |-> UnknownServer])

McpDocs == {McpValid, McpUnknownShape}

\* An MCP configuration of the user's own in an agent's target file: a server
\* and a key that no generator writes.
UserMcpDoc ==
    JsonText(JObj([key \in {MCP_SERVERS_FIELD, "theme"} |->
                      IF key = "theme" THEN JStr("dark")
                      ELSE JObj([name \in {<<"mine">>} |-> CommandServer])]),
             <<"user json">>)

\* The target files of claude's and of gemini's MCP generator.
UserMcpTargets == {<<<<".mcp", ".json">>>>, GEMINI_SETTINGS_JSON}

CommandStems == {"b", "c"}

CommandPath(stem) == <<AI_RULE_SOURCE_DIR, COMMANDS_DIR, <<stem, MD_EXTENSION>>>>

SkillPath == <<AI_RULE_SOURCE_DIR, SKILLS_DIR, <<"s">>, SKILL_FILENAME>>

\* Files of the user's own, next to generated ones.
UserFiles ==
    {<<<<".roo">>, <<"rules">>, <<"my-custom-rule", MD_EXTENSION>>>>,
     <<<<".cursor">>, <<"rules">>, <<"notes", MDC_EXTENSION>>>>}

\* Skills of the user's own in the skills directories of claude and of cursor.
UserSkills ==
    {<<<<".claude">>, <<"skills">>, <<"my-custom-skill">>, SKILL_FILENAME>>,
     <<<<".cursor">>, <<"skills">>, <<"my-custom-skill">>, SKILL_FILENAME>>}

\* Generated body files a user may edit or delete, and a stale one a user may leave.
BodyPath(stem) == Join(generated_body_file_dir, <<GENERATED_FILE_PREFIX, stem, MD_EXTENSION>>)

TamperTargets == {BodyPath("a"), BodyPath("b")}

StalePath == BodyPath("old")

EmptyFs == [p \in {} |-> DirNode]

Project(files) == write_directory_files(EmptyFs, files)

\* A required and an optional rule, MCP servers, two commands, a skill and a
\* file of the user's in an agent's rules directory.
FullProject ==
    Project([p \in {RulePath("a"), RulePath("b"), mcp_source_path, CommandPath("b"),
                    CommandPath("c"), SkillPath,
                    <<<<".roo">>, <<"rules">>, <<"my-custom-rule", MD_EXTENSION>>>>} |->
        CASE p = RulePath("a") -> TextOf(DocRequired)
          [] p = RulePath("b") -> TextOf(DocOptional)
          [] p = mcp_source_path -> McpValid
          [] OTHER -> TextOf(<<"user text", NL>>)])

\* Two required rules, one of them blocked for some agents.
BlockedProject ==
    Project([p \in {RulePath("a"), RulePath("b")} |->
        IF p = RulePath("a") THEN TextOf(DocPlain) ELSE TextOf(DocBlocked)])

\* Only ai-rules/AGENTS.md, without frontmatter: symlink mode.
SymlinkProject == Project([p \in {RulePath("AGENTS"), CommandPath("c")} |-> TextOf(DocPlain)])

\* A frontmatter-less AGENTS.md next to an optional rule: deleting the rule
\* leaves the directory in symlink mode.
MixedProject ==
    Project([p \in {RulePath("AGENTS"), RulePath("a")} |->
        IF p = RulePath("a") THEN TextOf(DocOptional) ELSE TextOf(DocPlain)])

\* Symlink mode with an MCP source whose server has an unknown shape.
BadMcpProject ==
    Project([p \in {RulePath("AGENTS"), mcp_source_path} |->
        IF p = mcp_source_path THEN McpUnknownShape ELSE TextOf(DocPlain)])

Projects == {EmptyFs, FullProject, BlockedProject, SymlinkProject, MixedProject, BadMcpProject}

\* Orders in which HashMap::keys may yield the registry's tool names.
ToolOrders ==
    {<<"claude", "cline", "cursor", "firebender", "goose", "amp", "codex", "copilot", "gemini",
       "kilocode", "roo">>,
     <<"roo", "kilocode", "gemini", "copilot", "codex", "goose", "firebender", "cursor", "cline",
       "claude", "amp">>}

\* The command-line arguments: the agents (None = all) and the skills flag.
Configs ==
    {[agents |-> None, use_claude_skills |-> FALSE],
     [agents |-> Some(<<"claude", "amp", "cursor">>), use_claude_skills |-> TRUE],
     [agents |-> Some(<<"roo", "gemini", "firebender", "goose">>), use_claude_skills |-> FALSE]}

\* The number of edits the user makes.
MaxEdits == 1

(***************************************************************************)
(* The state machine                                                       *)
(***************************************************************************)
VARIABLES
    fs,        \* the project directory
    args,      \* the arguments every command is run with
    last,      \* the last step: its operation and whether it returned Ok
    cleaned,   \* the file system as the last clean (alone or in generate) left it
    status,    \* the ProjectStatus of the last status command
    fresh,     \* the last generate succeeded and nothing has changed since
    edit,      \* the user's last edit
    snapshot,  \* the file system the user's last edit started from
    edits,     \* the number of edits made
    query      \* a question put to the resolvers of a rule, and their answers

vars == <<fs, args, last, cleaned, status, fresh, edit, snapshot, edits, query>>

\* run_generate / check_project_status: args.agents or registry.get_all_tool_names()
ResolveAgents == IF args.agents = None THEN ToolOrders ELSE {args.agents[1]}

NoStatus ==
    [ok |-> TRUE, body_files_out_of_sync |-> FALSE, agent_statuses |-> [a \in {} |-> TRUE],
     has_ai_rules |-> FALSE]

\* No question put.
NoQuery ==
    [rule |-> SourceFile(FrontMatter("", TRUE, None, None, None), <<>>, ""), asked |-> "none",
     names |-> <<>>, single |-> <<>>, group |-> TRUE]

Init ==
    /\ fs \in Projects
    /\ args \in Configs
    /\ last = [op |-> "none", ok |-> TRUE]
    /\ cleaned = fs
    /\ status = NoStatus
    /\ fresh = FALSE
    /\ edit = [kind |-> "none", name |-> "", fresh |-> FALSE]
    /\ snapshot = fs
    /\ edits = 0
    /\ query = NoQuery

\* ai-rules generate (run_generate on a project of depth 0).  The gitignore
\* option is off and the project has no .gitignore, so remove_gitignore_section
\* changes nothing.
Generate ==
    \E agents \in ResolveAgents :
        \E r \in {generate_files(fs, agents, agents, args.use_claude_skills)} :
            /\ fs' = r.fs
            /\ last' = [op |-> "generate", ok |-> r.ok]
            /\ cleaned' = clean_generated_files(fs, agents).fs
            /\ fresh' = r.ok
            /\ UNCHANGED <<args, status, edit, snapshot, edits, query>>

\* ai-rules status
Status ==
    \E agents \in ResolveAgents :
        /\ status' = check_project_status(fs, agents, agents, args.use_claude_skills)
        /\ last' = [op |-> "status", ok |-> status'.ok]
        /\ UNCHANGED <<fs, args, cleaned, fresh, edit, snapshot, edits, query>>

\* ai-rules clean: every registered tool is cleaned.
Clean ==
    \E agents \in ToolOrders :
        \E r \in {clean_generated_files(fs, agents)} :
            /\ fs' = r.fs
            /\ last' = [op |-> "clean", ok |-> r.ok]
            /\ cleaned' = r.fs
            /\ fresh' = FALSE
            /\ UNCHANGED <<args, status, edit, snapshot, edits, query>>

\* The user changes the project to new_fs.
UserEdit(kind, name, new_fs) ==
    /\ edits < MaxEdits
    /\ new_fs # fs
    /\ fs' = new_fs
    /\ last' = [op |-> "edit", ok |-> TRUE]
    /\ edit' = [kind |-> kind, name |-> name, fresh |-> fresh]
    /\ snapshot' = fs
    /\ fresh' = FALSE
    /\ edits' = edits + 1
    /\ UNCHANGED <<args, cleaned, status, query>>

WriteRule ==
    \E stem \in RuleStems, doc \in RuleDocs :
        UserEdit("WriteRule", stem, WriteFile(fs, RulePath(stem), TextOf(doc)))

DeleteRule ==
    \E stem \in RuleStems :
        /\ Has(fs, RulePath(stem))
        /\ UserEdit("DeleteRule", stem, RemoveFile(fs, RulePath(stem)))

WriteMcp ==
    \E doc \in McpDocs : UserEdit("WriteMcp", "", WriteFile(fs, mcp_source_path, doc))

DeleteMcp ==
    /\ Has(fs, mcp_source_path)
    /\ UserEdit("DeleteMcp", "", RemoveFile(fs, mcp_source_path))

WriteCommand ==
    \E stem \in CommandStems :
        /\ ~Has(fs, CommandPath(stem))
        /\ UserEdit("WriteCommand", stem, WriteFile(fs, CommandPath(stem), TextOf(<<"run", NL>>)))

DeleteCommand ==
    \E stem \in CommandStems :
        /\ Has(fs, CommandPath(stem))
        /\ UserEdit("DeleteCommand", stem, RemoveFile(fs, CommandPath(stem)))

WriteSkill ==
    /\ ~Has(fs, SkillPath)
    /\ UserEdit("WriteSkill", "s", WriteFile(fs, SkillPath, TextOf(<<"skill", NL>>)))

DeleteSkill ==
    /\ Has(fs, SkillPath)
    /\ UserEdit("DeleteSkill", "s", RemoveDirAll(fs, Parent(SkillPath)))

WriteUserFile ==
    \E p \in UserFiles :
        /\ ~Has(fs, p)
        /\ UserEdit("WriteUserFile", "", WriteFile(fs, p, TextOf(<<"user text", NL>>)))

\* The user puts a configuration of their own in an agent's MCP target file.
WriteUserMcp ==
    \E p \in UserMcpTargets : UserEdit("WriteUserMcp", "", WriteFile(fs, p, UserMcpDoc))

\* The user creates a skill of their own next to the generated ones.
WriteUserSkill ==
    \E p \in UserSkills :
        /\ ~Has(fs, p)
        /\ UserEdit("WriteUserSkill", "", WriteFile(fs, p, TextOf(<<"user skill", NL>>)))

\* The user edits or deletes a generated body file, or leaves a stale one.
ModifyGenerated ==
    \E p \in TamperTargets :
        /\ Has(fs, p)
        /\ UserEdit("ModifyGenerated", "", WriteFile(fs, p, TextOf(<<"edited", NL>>)))

DeleteGenerated ==
    \E p \in TamperTargets :
        /\ Has(fs, p)
        /\ UserEdit("DeleteGenerated", "", RemoveFile(fs, p))

AddStale ==
    /\ ~Has(fs, StalePath)
    /\ UserEdit("AddStale", "", WriteFile(fs, StalePath, TextOf(<<"stale", NL>>)))

Next ==
    \/ Generate
    \/ Status
    \/ Clean
    \/ WriteRule
    \/ DeleteRule
    \/ WriteMcp
    \/ DeleteMcp
    \/ WriteCommand
    \/ DeleteCommand
    \/ WriteSkill
    \/ DeleteSkill
    \/ WriteUserFile
    \/ WriteUserMcp
    \/ WriteUserSkill
    \/ ModifyGenerated
    \/ DeleteGenerated
    \/ AddStale

Spec == Init /\ [][Next]_vars

(***************************************************************************)
(* The resolvers of models/source_file.rs as a state machine of their own: *)
(* a rule with agent lists in its frontmatter, and questions put to it.    *)
(***************************************************************************)
\* The longest agent list of a rule, and the longest list of names asked for.
MaxListLen == 2
MaxNames == 2

\* Agent names as a frontmatter writes them, and as they are asked for.
ListNames == {"claude", "Cursor", "AMP"}
QueryNames == {"claude", "cursor", "amp", "Claude", "goose"}

RECURSIVE SeqsUpTo(_, _)
SeqsUpTo(S, n) ==
    IF n = 0 THEN {<<>>}
    ELSE SeqsUpTo(S, n - 1) \cup
         {Append(q, x) : q \in {r \in SeqsUpTo(S, n - 1) : Len(r) = n - 1}, x \in S}

\* allowedAgents or blockedAgents: not given, or a list.
AgentLists == {None} \cup {Some(l) : l \in SeqsUpTo(ListNames, MaxListLen)}

ResolverRules ==
    {SourceFile(FrontMatter("Rule", TRUE, None, allowed, blocked), <<"text", NL>>, "a") :
         allowed \in AgentLists, blocked \in AgentLists}

ResolverInit ==
    /\ fs = EmptyFs
    /\ args = [agents |-> None, use_claude_skills |-> FALSE]
    /\ last = [op |-> "none", ok |-> TRUE]
    /\ cleaned = fs
    /\ status = NoStatus
    /\ fresh = FALSE
    /\ edit = [kind |-> "none", name |-> "", fresh |-> FALSE]
    /\ snapshot = fs
    /\ edits = 0
    /\ query \in {[NoQuery EXCEPT !.rule = rule] : rule \in ResolverRules}

\* rule.applies_to_agent(name)
AskAgent ==
    /\ \E name \in QueryNames :
           query' = [query EXCEPT !.asked = "agent", !.names = <<name>>,
                                  !.single = <<applies_to_agent(query.rule, name)>>,
                                  !.group = TRUE]
    /\ UNCHANGED <<fs, args, last, cleaned, status, fresh, edit, snapshot, edits>>

\* rule.applies_to_agents(names), and rule.applies_to_agent of each of the names
AskGroup ==
    /\ \E names \in SeqsUpTo(QueryNames, MaxNames) :
           query' = [query EXCEPT !.asked = "group", !.names = names,
                                  !.single = [i \in DOMAIN names |->
                                                 applies_to_agent(query.rule, names[i])],
                                  !.group = applies_to_agents(query.rule, names)]
    /\ UNCHANGED <<fs, args, last, cleaned, status, fresh, edit, snapshot, edits>>

ResolverNext == AskAgent \/ AskGroup

ResolverSpec == ResolverInit /\ [][ResolverNext]_vars

(***************************************************************************)
(* Claims                                                                  *)
(***************************************************************************)
\* The files and symlinks of a file system, without its directories.
Entries(f) == [p \in {q \in DOMAIN f : f[q].k # "dir"} |-> f[p]]

\* The entries other than the user's own files: the sources, which no command
\* changes, and the artifacts the generators own.
Owned(f) == [p \in {q \in DOMAIN f : f[q].k # "dir" /\ q \notin UserFiles} |-> f[p]]

AllInSync(st) ==
    /\ st.ok
    /\ ~st.body_files_out_of_sync
    /\ \A agent \in DOMAIN st.agent_statuses : st.agent_statuses[agent]

\* C1: a status check that follows a successful generate, with the same
\* arguments and no change to the file system in between, reports the body
\* files and every agent in sync, in standard, skills and symlink mode.
C1_StatusAfterGenerateInSync ==
    (last.op = "status" /\ fresh) => AllInSync(status)

\* C2: a generate that follows a successful generate, with the same arguments
\* and no change in between, leaves the same paths with the same contents and
\* the same symlink targets.
C2_GenerateTwiceSameArtifacts ==
    [][(fresh /\ last'.op = "generate" /\ last'.ok) => Entries(fs') = Entries(fs)]_vars

\* C3: no clean, run alone or as the first step of generate, deletes a file
\* whose name does not start with ai-rules-generated-, also when the file is in
\* a directory of generated files.
C3_CleanKeepsUnprefixedFiles ==
    [][last'.op \in {"clean", "generate"} =>
           \A p \in DOMAIN fs :
               (fs[p].k = "file" /\ ~StartsWithPrefix(FileName(p))) => p \in DOMAIN cleaned']_vars

\* C4: when the artifacts on disk differ from what generate produces (one is
\* missing, differs, or is stale), status does not report everything in sync;
\* that is, a status that reports everything in sync has found the artifacts
\* of a generate on disk.
C4_InSyncOnlyWhenArtifactsMatch ==
    (last.op = "status" /\ AllInSync(status)) =>
        \E agents \in ResolveAgents :
            Owned(generate_files(fs, agents, agents, args.use_claude_skills).fs) = Owned(fs)

\* The optional-rules index files: ai-rules-generated-optional*.md
IsOptionalIndex(p) ==
    /\ Len(FileName(p)) >= 2
    /\ FileName(p)[1] = GENERATED_FILE_PREFIX
    /\ FileName(p)[2] \in {"optional", "optional-"}

HasOptionalRule(f) ==
    \E i \in DOMAIN find_source_files(f).source_files :
        ~find_source_files(f).source_files[i].front_matter.always_apply

\* A successful generate that follows the deletion of a rule file from a
\* freshly generated project.
RegenerateAfterDelete ==
    /\ last.op = "edit" /\ edit.kind = "DeleteRule" /\ edit.fresh
    /\ last'.op = "generate" /\ last'.ok

SameBody(before, after, stem) ==
    /\ BodyPath(stem) \in DOMAIN before <=> BodyPath(stem) \in DOMAIN after
    /\ BodyPath(stem) \in DOMAIN after => after[BodyPath(stem)] = before[BodyPath(stem)]

\* C5: when a rule file is deleted after a generate and generate runs again,
\* the deleted rule's generated body file is gone, no optional index remains
\* when no optional rule remains, and the generated body file of every
\* remaining rule is as it was.
C5_RegenerateAfterDelete ==
    [][RegenerateAfterDelete =>
           /\ BodyPath(edit.name) \notin DOMAIN fs'
           /\ ~HasOptionalRule(fs) => \A p \in DOMAIN fs' : ~IsOptionalIndex(p)
           /\ \A stem \in RuleStems :
                  Has(fs, RulePath(stem)) => SameBody(snapshot, fs', stem)]_vars

\* C5, amended: the same, provided the remaining rule files do not put the
\* directory in symlink mode, where no body files are generated at all.
C5_RegenerateAfterDeleteStandard ==
    [][(RegenerateAfterDelete /\ ~detect_symlink_mode(fs)) =>
           /\ BodyPath(edit.name) \notin DOMAIN fs'
           /\ ~HasOptionalRule(fs) => \A p \in DOMAIN fs' : ~IsOptionalIndex(p)
           /\ \A stem \in RuleStems :
                  Has(fs, RulePath(stem)) => SameBody(snapshot, fs', stem)]_vars

\* The agents the commands are run for.
ConfiguredAgents == IF args.agents = None THEN AllTools ELSE Range(args.agents[1])

\* A successful generate that follows a rule edit which takes a freshly
\* generated symlink-mode project out of symlink mode.
RegenerateAfterLeavingSymlinkMode ==
    /\ last.op = "edit" /\ edit.kind = "WriteRule" /\ edit.fresh
    /\ detect_symlink_mode(snapshot) /\ ~detect_symlink_mode(fs)
    /\ last'.op = "generate" /\ last'.ok

\* C6: when a project generated in symlink mode gains a second rule file, or
\* its AGENTS.md gains frontmatter, then after the next generate no symlink to
\* ai-rules/AGENTS.md is left and every configured agent has its standard
\* artifacts, as its own check of them requires.
C6_LeavesSymlinkMode ==
    [][RegenerateAfterLeavingSymlinkMode =>
           /\ \A p \in DOMAIN fs' :
                  ~(IsSymlink(fs', p) /\ LinkPointsTo(fs', p, agents_md_source_path))
           /\ \A agent \in ConfiguredAgents :
                  Tool_check_agent_contents(fs', agent, find_source_files(fs').source_files,
                                            args.use_claude_skills)]_vars

\* text holds sub as a run of consecutive tokens.
Contains(text, sub) ==
    \E i \in 1..(Len(text) - Len(sub) + 1) : SubSeq(text, i, i + Len(sub) - 1) = sub

RECURSIVE JContains(_, _)
JContains(value, sub) ==
    CASE value.t = "str" -> Contains(value.v, sub)
      [] value.t = "arr" -> \E i \in DOMAIN value.v : JContains(value.v[i], sub)
      [] value.t = "obj" -> \E key \in DOMAIN value.v : JContains(value.v[key], sub)
      [] OTHER -> FALSE

\* The artifact at path p with this content is the rule's own file, refers to
\* the rule's generated body file, or holds the rule's body.
Mentions(p, content, rule) ==
    LET body_name == <<GENERATED_FILE_PREFIX, rule.base_file_name>> IN
    \/ \E i \in DOMAIN p : Contains(p[i], body_name)
    \/ Contains(content.text, body_name)
    \/ rule.body # <<>> /\ Contains(content.text, rule.body)
    \/ content.json # <<>> /\ JContains(content.json[1], body_name)

\* C7: in what generate has produced, no rule artifact of an agent contains or
\* refers to a rule that does not apply to that agent.
C7_NoArtifactOfNonApplicableRule ==
    (last.op = "generate" /\ last.ok /\ ~detect_symlink_mode(fs)) =>
        LET source_files == find_source_files(fs).source_files IN
        \A agent \in ConfiguredAgents : \A i \in DOMAIN source_files :
            ~applies_to_agent(source_files[i], agent) =>
                LET files == Tool_generate_agent_contents(fs, agent, source_files,
                                                          args.use_claude_skills)
                IN  \A p \in DOMAIN files : ~Mentions(p, files[p], source_files[i])

\* The regular files of the generated body directory are not the expected
\* ones: one per rule, and none in symlink mode.
BodyFilesMismatch(f) ==
    LET expected == IF detect_symlink_mode(f) THEN EmptyMap
                    ELSE generate_body_contents(find_source_files(f).source_files)
        on_disk == {p \in DOMAIN f : Parent(p) = generated_body_file_dir /\ f[p].k = "file"}
    IN  \/ on_disk # DOMAIN expected
        \/ \E p \in on_disk : f[p].c # expected[p]

\* C8: when the generated body files are not the expected ones, status flags
\* the body files and reports every agent out of sync.
C8_BodyMismatchFailsEveryAgent ==
    (last.op = "status" /\ find_source_files(fs).ok /\ BodyFilesMismatch(fs)) =>
        /\ status.ok
        /\ status.body_files_out_of_sync
        /\ \A agent \in DOMAIN status.agent_statuses : ~status.agent_statuses[agent]

HasUnknownShapeServer(f) ==
    /\ Has(f, mcp_source_path)
    /\ ~IsMcpConfig(ReadToString(f, mcp_source_path))

\* C10: when the MCP source holds a server of an unknown shape, generate
\* returns an error and has written nothing.
C10_UnknownShapeRejected ==
    (last.op = "generate" /\ HasUnknownShapeServer(fs)) =>
        (~last.ok /\ Entries(fs) = Entries(cleaned))

\* C5 happens: a rule was deleted from a generated project that stays in
\* standard mode, generate ran again, the rule's body file and the optional
\* index are gone and another rule's body file is there.
C5_Witness ==
    /\ last.op = "generate" /\ last.ok /\ fresh
    /\ edit.kind = "DeleteRule" /\ edit.fresh
    /\ ~detect_symlink_mode(fs)
    /\ Has(snapshot, BodyPath(edit.name)) /\ ~Has(fs, BodyPath(edit.name))
    /\ \E p \in DOMAIN snapshot : IsOptionalIndex(p)
    /\ \A p \in DOMAIN fs : ~IsOptionalIndex(p)
    /\ \E stem \in RuleStems : Has(fs, RulePath(stem)) /\ Has(fs, BodyPath(stem))

McpTargets == {mcp_generator(agent)[1].path : agent \in {a \in ConfiguredAgents : mcp_generator(a) # None}}

\* The servers of the MCP source, by name (none when there is no valid source).
SourceServers(f) ==
    IF read_mcp_config(f).ok /\ read_mcp_config(f).value # None
    THEN ObjectAt(read_mcp_config(f).value[1].json[1], MCP_SERVERS_FIELD)
    ELSE JEmpty

\* Every key of the JSON object in file p of `before` that is not the server
\* table, and every server of it that is neither generated nor named by the
\* source, is in file p of `after` with the same value.
UserKeysKept(before, after, p) ==
    LET Kept(old, new) ==
            /\ is_object(new)
            /\ \A key \in (DOMAIN old.v) \ {MCP_SERVERS_FIELD} :
                   HasKey(new, key) /\ new.v[key] = old.v[key]
            /\ \A name \in DOMAIN ObjectAt(old, MCP_SERVERS_FIELD).v :
                   (~StartsWithPrefix(name) /\ ~HasKey(SourceServers(before), name)) =>
                       /\ HasKey(ObjectAt(new, MCP_SERVERS_FIELD), name)
                       /\ ObjectAt(new, MCP_SERVERS_FIELD).v[name]
                              = ObjectAt(old, MCP_SERVERS_FIELD).v[name]
    IN  (IsFile(before, p) /\ ReadToString(before, p).json # <<>>
             /\ is_object(ReadToString(before, p).json[1])) =>
            /\ IsFile(after, p) /\ ReadToString(after, p).json # <<>>
            /\ Kept(ReadToString(before, p).json[1], ReadToString(after, p).json[1])

\* C11: a successful generate with a valid MCP source leaves, in the MCP target
\* file of every configured agent, every key and every server of the user's own
\* that the file held before, unchanged.
C11_McpKeepsUserKeys ==
    [][(last'.op = "generate" /\ last'.ok /\ DOMAIN SourceServers(fs).v # {}) =>
           \A p \in McpTargets : UserKeysKept(fs, fs', p)]_vars

\* The merge of GeminiMcpGenerator: generate keeps the user's keys and servers
\* of .gemini/settings.json.
GeminiMcpKeepsUserKeys ==
    [][(last'.op = "generate" /\ last'.ok /\ DOMAIN SourceServers(fs).v # {}) =>
           UserKeysKept(fs, fs', GEMINI_SETTINGS_JSON)]_vars

\* The sources of the project: everything under ai-rules/ outside the generated
\* body directory.
IsSource(p) == IsPrefixOf(<<AI_RULE_SOURCE_DIR>>, p) /\ ~IsPrefixOf(generated_body_file_dir, p)

\* A file or symlink the last generate wrote: its clean step had left none, or
\* another one, at that path.
Written(p) == fs[p].k # "dir" /\ (p \notin DOMAIN cleaned \/ cleaned[p] # fs[p])

\* No server of the file at p carries the reserved prefix.
NoGeneratedServers(f, p) ==
    (IsFile(f, p) /\ ReadToString(f, p).json # <<>>) =>
        \A name \in DOMAIN ObjectAt(ReadToString(f, p).json[1], MCP_SERVERS_FIELD).v :
            ~StartsWithPrefix(name)

SkillsDirs ==
    {CLAUDE_SKILLS_DIR} \cup
    {skills_generator(agent)[1] : agent \in {a \in AllTools : skills_generator(a) # None}}

\* The entry of the skills directory that p is, or lies in, is not generated.
InUserSkill(dir, p) ==
    /\ Len(p) > Len(dir) /\ IsPrefixOf(dir, p)
    /\ ~StartsWithPrefix(p[Len(dir) + 1])

\* C13: a clean, alone or as the first step of generate, leaves every entry of
\* a skills directory whose name does not start with the reserved prefix, and
\* everything in it, as it was.
C13_CleanKeepsUserSkills ==
    [][(last'.op = "clean" \/ last'.op = "generate") =>
           \A dir \in SkillsDirs : \A p \in DOMAIN fs :
               InUserSkill(dir, p) => (p \in DOMAIN cleaned' /\ cleaned'[p] = fs[p])]_vars

\* A clean has removed a generated skill of .claude/skills and left the user's
\* skill next to it.
C13_Witness ==
    /\ last.op = "clean" /\ last.ok
    /\ edit.kind = "WriteUserSkill" /\ edit.fresh
    /\ args.use_claude_skills
    /\ \E p \in DOMAIN snapshot : IsPrefixOf(CLAUDE_SKILLS_DIR, p) /\ p \notin DOMAIN fs
    /\ \E p \in UserSkills : IsPrefixOf(CLAUDE_SKILLS_DIR, p) /\ Has(fs, p)

\* The project with its sources alone: a tree that holds no generated artifact.
SourceTree(f) == Table([p \in {q \in DOMAIN f : IsSource(q)} |-> f[p]])

\* A tree as an aborted generate leaves it: generate fails on it and changes
\* nothing of it.
AbortedTree(f) ==
    \E agents \in ResolveAgents :
        \E r \in {generate_files(f, agents, agents, args.use_claude_skills)} : ~r.ok /\ r.fs = f

\* The artifacts of fs' are those of a generate on the sources of fs alone,
\* whatever the order of the agents in that run.
AsFromSourcesAlone ==
    \A agents \in ResolveAgents :
        \E r \in {generate_files(SourceTree(fs), agents, agents, args.use_claude_skills)} :
            r.ok /\ Owned(r.fs) = Owned(fs')

\* C14: a successful generate on a tree that an aborted generate left, the
\* user having changed the sources since, leaves exactly the artifacts that a
\* successful generate leaves on a tree with these sources and no artifacts.
C14_GenerateAfterAbort ==
    [][(last'.op = "generate" /\ last'.ok /\ last.op = "edit" /\ AbortedTree(snapshot)) =>
           AsFromSourcesAlone]_vars

\* The same with the agents of the other run in some order of the registry.
C14_GenerateAfterAbortSomeOrder ==
    [][(last'.op = "generate" /\ last'.ok /\ last.op = "edit" /\ AbortedTree(snapshot)) =>
           \E agents \in ResolveAgents :
               \E r \in {generate_files(SourceTree(fs), agents, agents, args.use_claude_skills)} :
                   r.ok /\ Owned(r.fs) = Owned(fs')]_vars

\* Where generate_symlink of the agent puts its output.
OutputLocation(agent) ==
    IF ToolKind[agent] = "firebender" THEN FIREBENDER_PATH ELSE SymlinkPath(agent)

\* The output location of the agent is a relative symlink that resolves to
\* ai-rules/AGENTS.md.
LinkedToAgentsMd(agent) ==
    /\ IsSymlink(fs, OutputLocation(agent))
    /\ LinkTarget(fs, OutputLocation(agent)) = agents_md_source_path
    /\ Exists(fs, OutputLocation(agent))

\* C15: after a successful generate on a directory in symlink mode, nothing
\* changed since, there is no generated body directory and the output location
\* of every configured agent is a relative symlink that resolves to
\* ai-rules/AGENTS.md.
C15_SymlinkModeLinksEveryAgent ==
    (fresh /\ detect_symlink_mode(fs)) =>
        /\ ~Has(fs, generated_body_file_dir)
        /\ \A agent \in ConfiguredAgents : LinkedToAgentsMd(agent)

\* C15 with firebender apart: firebender.json is a regular file that names
\* ai-rules/AGENTS.md in its rules.
C15_SymlinkModeLinksButFirebender ==
    (fresh /\ detect_symlink_mode(fs)) =>
        /\ ~Has(fs, generated_body_file_dir)
        /\ \A agent \in ConfiguredAgents \ {"firebender"} : LinkedToAgentsMd(agent)
        /\ "firebender" \in ConfiguredAgents =>
               /\ Has(fs, FIREBENDER_PATH) /\ fs[FIREBENDER_PATH].k = "file"
               /\ generate_firebender_symlink_content(fs).ok
               /\ ReadToString(fs, FIREBENDER_PATH) = generate_firebender_symlink_content(fs).content

\* A generate in symlink mode for agents with a link in an agent directory,
\* among them firebender.
C15_Witness ==
    /\ fresh /\ detect_symlink_mode(fs) /\ last.op = "generate"
    /\ {"roo", "firebender"} \subseteq ConfiguredAgents
    /\ IsSymlink(fs, SymlinkPath("roo"))

\* The regular files of ai-rules/ with the extension .md.
MdFilesOfAiRules ==
    {p \in DOMAIN fs : /\ Len(p) = 2 /\ p[1] = AI_RULE_SOURCE_DIR
                       /\ Last(p[2]) = MD_EXTENSION /\ fs[p].k = "file"}

\* The text starts, after whitespace only, with the frontmatter delimiter.
DelimiterAfterWhitespace(text) ==
    \E i \in DOMAIN text :
        /\ text[i] = FRONTMATTER_DELIMITER
        /\ \A j \in 1..(i - 1) : text[j] \in {NL, " "}

\* C16: the directory is in symlink mode exactly when ai-rules/ holds one .md
\* file, that file is AGENTS.md, and its content does not start, leading
\* whitespace apart, with the frontmatter delimiter.
C16_SymlinkModeIff ==
    detect_symlink_mode(fs) <=>
        /\ MdFilesOfAiRules = {agents_md_source_path}
        /\ ~DelimiterAfterWhitespace(fs[agents_md_source_path].c.text)

\* A generate has run on a directory whose only rule file is an AGENTS.md with
\* whitespace before its frontmatter, and has written body files: no symlink
\* mode.
C16_Witness ==
    /\ last.op = "generate" /\ last.ok
    /\ MdFilesOfAiRules = {agents_md_source_path}
    /\ fs[agents_md_source_path].c.text = DocIndented
    /\ Has(fs, generated_body_file_dir)

\* The generated body directory exists and its regular files are the expected
\* ones, each with the expected content.
HoldsExactly(expected_files) ==
    /\ Has(fs, generated_body_file_dir) /\ fs[generated_body_file_dir].k = "dir"
    /\ {p \in ReadDir(fs, generated_body_file_dir) : fs[p].k = "file"} = DOMAIN expected_files
    /\ \A p \in DOMAIN expected_files : fs[p].c = expected_files[p]

\* C17: for a directory whose rule files parse and are not none, the check of
\* the body files answers in sync exactly when the generated body directory
\* exists and holds the expected files, no more and no fewer, each with the
\* expected content.
C17_BodyCheckIffExactMatch ==
    LET Agrees(found) ==
            (found.ok /\ found.source_files # <<>>) =>
                (check_body_files(fs, found.source_files)
                     <=> HoldsExactly(generate_body_contents(found.source_files)))
    IN  Agrees(find_source_files(fs))

\* A status has found the body files out of sync for a stale file that the
\* user left next to freshly generated ones.
C17_Witness ==
    /\ last.op = "status" /\ last.ok
    /\ edit.kind = "AddStale" /\ edit.fresh
    /\ status.has_ai_rules /\ status.body_files_out_of_sync
    /\ find_source_files(fs).ok /\ find_source_files(fs).source_files # <<>>

\* Where generate_agent_contents of the agent puts its rule output: a document,
\* or a rules directory.
ContentLocation(agent) ==
    CASE ToolKind[agent] = "claude" -> CLAUDE_MD
      [] ToolKind[agent] = "markdown" -> RulesDir(agent)
      [] ToolKind[agent] = "cursor" -> get_cursor_rules_dir
      [] ToolKind[agent] = "firebender" -> FIREBENDER_PATH
      [] ToolKind[agent] = "gemini" -> GEMINI_AGENT_FILE
      [] OTHER -> AGENTS_MD_PATH

\* The agent has output in the directory: something at its location or, for
\* claude in skills mode, a generated entry of .claude/skills.  Found(_, _) is
\* the test for a path: Has for an entry of the directory, Exists for
\* Path::exists.
OutputPresent(agent, Found(_, _)) ==
    \/ Found(fs, ContentLocation(agent))
    \/ /\ ToolKind[agent] = "claude" /\ args.use_claude_skills
       /\ \E p \in DOMAIN fs :
              /\ Len(p) = Len(CLAUDE_SKILLS_DIR) + 1 /\ IsPrefixOf(CLAUDE_SKILLS_DIR, p)
              /\ StartsWithPrefix(FileName(p)) /\ Found(fs, p)

\* The checks of the rule output for a directory without rules: the body files
\* and the output of every configured agent.
RuleChecksInSync ==
    /\ check_body_files(fs, <<>>)
    /\ \A agent \in ConfiguredAgents :
           Tool_check_agent_contents(fs, agent, <<>>, args.use_claude_skills)

\* C18: for a directory with no rule files, the checks of the body files and
\* of the agents' rule output answer in sync exactly when the directory holds
\* neither the generated body directory nor the output of a configured agent.
C18_NoRulesInSyncIffNoOutput ==
    get_md_files_in_ai_rules_dir(fs) = <<>> =>
        (RuleChecksInSync <=>
             /\ ~Has(fs, generated_body_file_dir)
             /\ \A agent \in ConfiguredAgents : ~OutputPresent(agent, Has))

\* C18 with Path::exists for the outputs: a symlink whose target is gone does
\* not count.
C18_NoRulesInSyncIffNoOutputExists ==
    get_md_files_in_ai_rules_dir(fs) = <<>> =>
        (RuleChecksInSync <=>
             /\ ~Exists(fs, generated_body_file_dir)
             /\ \A agent \in ConfiguredAgents : ~OutputPresent(agent, Exists))

\* The name is a member of the list, letter case apart.
MemberIgnoringCase(name, list) == \E i \in DOMAIN list : Lower(list[i]) = Lower(name)

\* C19: the answer of the single-agent resolver is: with allowedAgents set,
\* whether the name is in it, letter case apart, whatever blockedAgents holds;
\* else with blockedAgents set, whether the name is not in it; else yes.
C19_SingleAgentResolver ==
    query.asked = "agent" =>
        query.single[1] =
            (IF query.rule.front_matter.allowed_agents # None
             THEN MemberIgnoringCase(query.names[1], query.rule.front_matter.allowed_agents[1])
             ELSE IF query.rule.front_matter.blocked_agents # None
             THEN ~MemberIgnoringCase(query.names[1], query.rule.front_matter.blocked_agents[1])
             ELSE TRUE)

\* The resolver has let through an agent that both lists of the rule name, in
\* another letter case than the one asked for.
C19_Witness ==
    /\ query.asked = "agent" /\ query.names = <<"cursor">> /\ query.single = <<TRUE>>
    /\ query.rule.front_matter.allowed_agents = Some(<<"Cursor">>)
    /\ query.rule.front_matter.blocked_agents = Some(<<"Cursor">>)

\* C20: the group resolver answers yes for a list of names exactly when the
\* single-agent resolver answers yes for every name of the list.
C20_GroupAgreesWithSingle ==
    query.asked = "group" =>
        (query.group <=> \A i \in DOMAIN query.single : query.single[i])

\* The group resolver has refused two names of which the single-agent resolver
\* lets one through.
C20_Witness ==
    /\ query.asked = "group" /\ Len(query.names) = 2
    /\ ~query.group /\ query.single[1] /\ ~query.single[2]
    /\ query.rule.front_matter.allowed_agents # None

\* The lines of a text, each without its line end; a last line that has no
\* line end is a line too.
RECURSIVE TextLines(_)
TextLines(text) ==
    IF text = <<>> THEN <<>>
    ELSE LET n == IndexOf(text, NL, 1)
         IN  IF n = 0 THEN <<text>>
             ELSE <<SubSeq(text, 1, n - 1)>> \o TextLines(SubSeq(text, n + 1, Len(text)))

RequiredRules(source_files) == SelectSeq(source_files, LAMBDA f : f.front_matter.always_apply)

OptionalRules(source_files) == SelectSeq(source_files, LAMBDA f : ~f.front_matter.always_apply)

\* The reference line, without its line end, to a file of the generated body directory.
ReferenceTo(filename) == <<"@">> \o Display(generated_body_file_reference_path(filename))

ReferenceAgents == {"claude", "gemini", "amp", AGENTS_MD_GROUP_NAME}

\* C21: the reference document of an agent is one line "@<path of the generated
\* body>" for each required rule, in the order of the rules, followed, exactly
\* when the agent has an optional rule, by an empty line and one reference line to
\* the optional index of that agent, every line ended by a line end.
C21_ReferenceDocument ==
    LET Shaped(required, optional, agent, document) ==
            /\ document # <<>> => Last(document) = NL
            /\ TextLines(document) =
                   [i \in DOMAIN required |-> ReferenceTo(get_body_file_name(required[i]))]
                   \o (IF optional # <<>>
                       THEN <<<<>>, ReferenceTo(optional_rules_filename_for_agent(agent))>>
                       ELSE <<>>)
        Of(source_files, agent) ==
            Shaped(RequiredRules(source_files), OptionalRules(source_files), agent,
                   generate_all_rule_references_for_agent(source_files, agent))
        All(source_files) ==
            \A agent \in ReferenceAgents :
                /\ Of(source_files, agent)
                /\ Of(filter_source_files_for_agent(source_files, agent), agent)
    IN  All(find_source_files(fs).source_files)

\* A generate has written GEMINI.md as the reference document of two required
\* rules and an optional one.
C21_Witness ==
    /\ last.op = "generate" /\ last.ok
    /\ Len(RequiredRules(find_source_files(fs).source_files)) = 2
    /\ Len(OptionalRules(find_source_files(fs).source_files)) = 1
    /\ IsFile(fs, GEMINI_AGENT_FILE)
    /\ ReadToString(fs, GEMINI_AGENT_FILE).text =
           generate_all_rule_references_for_agent(find_source_files(fs).source_files, "gemini")

\* The entry, without its line end, of a rule in an optional index.
EntryOf(source_file) ==
    <<source_file.front_matter.description, ": ">>
    \o Display(generated_body_file_reference_path(get_body_file_name(source_file)))

\* The lines of an optional index below its header that are not empty.
EntriesOf(content) ==
    SelectSeq(TextLines(content), LAMBDA line : line # <<>> /\ line # <<"# Optional Rules">>)

\* The optional index a markdown-based tool keeps in its rules directory.
OptionalIndexOf(agent) == Join(RulesDir(agent), <<GENERATED_FILE_PREFIX, "optional", MD_EXTENSION>>)

\* C22: the optional index of a rule set has one entry for each optional rule, in
\* the order of the rules and each once, and no entry for a required rule; with
\* no optional rule it is empty.
C22_OptionalIndexEntries ==
    LET Listed(optional, content) ==
            /\ EntriesOf(content) = [i \in DOMAIN optional |-> EntryOf(optional[i])]
            /\ optional = <<>> => content = <<>>
        Of(source_files) ==
            Listed(OptionalRules(source_files), generate_optional_rules_content(source_files))
        All(source_files) ==
            /\ Of(source_files)
            /\ \A agent \in ReferenceAgents :
                   Of(filter_source_files_for_agent(source_files, agent))
    IN  All(find_source_files(fs).source_files)

\* A generate has written the optional index of roo for two optional rules
\* that stand on either side of a required one.
C22_Witness ==
    /\ last.op = "generate" /\ last.ok
    /\ Len(find_source_files(fs).source_files) = 3
    /\ ~find_source_files(fs).source_files[1].front_matter.always_apply
    /\ find_source_files(fs).source_files[2].front_matter.always_apply
    /\ ~find_source_files(fs).source_files[3].front_matter.always_apply
    /\ IsFile(fs, OptionalIndexOf("roo"))
    /\ ReadToString(fs, OptionalIndexOf("roo")).text =
           generate_optional_rules_content(find_source_files(fs).source_files)

(***************************************************************************)
(* Rule bodies: a project of one rule file whose text is a frontmatter, or *)
(* none, and a body that ends in up to MaxTrailing line ends.              *)
(***************************************************************************)
MaxTrailing == 2

RuleHeads ==
    {<<>>,
     <<FRONTMATTER_DELIMITER, NL, "description:", "Rule", NL, "alwaysApply:", "true", NL,
       FRONTMATTER_DELIMITER, NL>>,
     <<FRONTMATTER_DELIMITER, NL, "alwaysApply:", "false", NL, FRONTMATTER_DELIMITER, NL>>}

RuleBodies == {<<"one", NL, "two">> \o [i \in 1..n |-> NL] : n \in 0..MaxTrailing}

RuleTexts == {head \o body : head \in RuleHeads, body \in RuleBodies}

BodyInit == Init /\ fs = EmptyFs

WriteRuleText ==
    \E stem \in RuleStems, text \in RuleTexts :
        UserEdit("WriteRuleText", stem, WriteFile(fs, RulePath(stem), TextOf(text)))

BodyNext == Generate \/ WriteRuleText

BodySpec == BodyInit /\ [][BodyNext]_vars

\* A text without the line ends at its end.
RECURSIVE StripTrailing(_)
StripTrailing(text) ==
    IF text # <<>> /\ Last(text) = NL THEN StripTrailing(Front(text)) ELSE text

BodyFileOf(source_file) == Join(generated_body_file_dir, get_body_file_name(source_file))

\* A generate in standard mode has just succeeded on rules that parse.
GeneratedBodies ==
    /\ last.op = "generate" /\ last.ok
    /\ ~detect_symlink_mode(fs)
    /\ find_source_files(fs).ok

\* C23: after a generate, the body file of every rule with body B holds B with
\* exactly one line end at its end.
C23_BodyFileOneTrailingNewline ==
    GeneratedBodies =>
        \A i \in DOMAIN find_source_files(fs).source_files :
            LET Held(source_file) ==
                    /\ IsFile(fs, BodyFileOf(source_file))
                    /\ ReadToString(fs, BodyFileOf(source_file)).text =
                           Append(StripTrailing(source_file.body), NL)
            IN  Held(find_source_files(fs).source_files[i])

\* C23, amended: after a generate, the body file of every rule with body B holds B
\* itself when B ends in a line end, and B followed by one line end otherwise.
C23_BodyFileEndsWithNewline ==
    GeneratedBodies =>
        \A i \in DOMAIN find_source_files(fs).source_files :
            LET Held(source_file) ==
                    /\ IsFile(fs, BodyFileOf(source_file))
                    /\ ReadToString(fs, BodyFileOf(source_file)).text =
                           (IF source_file.body # <<>> /\ Last(source_file.body) = NL
                            THEN source_file.body
                            ELSE Append(source_file.body, NL))
            IN  Held(find_source_files(fs).source_files[i])

\* A generate has written the body file of a rule whose body ends in two line
\* ends, and the file ends in both.
C23_Witness ==
    /\ GeneratedBodies
    /\ \E i \in DOMAIN find_source_files(fs).source_files :
           LET Kept(source_file) ==
                   /\ source_file.body = <<"one", NL, "two", NL, NL>>
                   /\ IsFile(fs, BodyFileOf(source_file))
                   /\ ReadToString(fs, BodyFileOf(source_file)).text = source_file.body
           IN  Kept(find_source_files(fs).source_files[i])

(***************************************************************************)
(* MCP servers: a project whose ai-rules/mcp.json declares one server, of  *)
(* every combination of the fields the transformation of gemini looks at.  *)
(***************************************************************************)
ServerFields ==
    [command : {None, Some(JStr(""))},
     type : {None, Some(JStr("http"))},
     url : {None, Some(JStr("https://host/mcp")), Some(JStr("https://host/sse"))},
     httpUrl : {None, Some(JStr("https://host/http"))}]

ServerOf(fields) ==
    JObj([key \in {k \in DOMAIN fields : fields[k] # None} |-> fields[key][1]])

McpServers == {ServerOf(fields) : fields \in ServerFields}

McpInit == Init /\ fs \in {EmptyFs, FullProject}

WriteMcpServer ==
    \E server \in McpServers :
        UserEdit("WriteMcpServer", "",
                 WriteFile(fs, mcp_source_path, McpDoc([name \in {<<"jira">>} |-> server])))

McpNext == Generate \/ WriteMcpServer

McpSpec == McpInit /\ [][McpNext]_vars

GeminiConfigured ==
    args.agents = None \/ \E i \in DOMAIN args.agents[1] : args.agents[1][i] = "gemini"

\* The servers that .gemini/settings.json holds.
GeminiServers ==
    IF IsFile(fs, GEMINI_SETTINGS_JSON) /\ ReadToString(fs, GEMINI_SETTINGS_JSON).json # <<>>
    THEN ObjectAt(ReadToString(fs, GEMINI_SETTINGS_JSON).json[1], MCP_SERVERS_FIELD)
    ELSE JEmpty

\* C24: after a generate for gemini on a source that the reader accepts, every
\* server of the source with a url that ends in /mcp and with no type has an
\* entry in .gemini/settings.json whose httpUrl is that url and that has
\* neither a url nor a command.
C24_UrlBecomesHttpUrl ==
    (/\ last.op = "generate" /\ last.ok /\ GeminiConfigured
     /\ Exists(fs, mcp_source_path) /\ IsMcpConfig(ReadToString(fs, mcp_source_path))) =>
        LET Renamed(servers) ==
                \A name \in DOMAIN servers.v :
                    (/\ HasKey(servers.v[name], "url")
                     /\ servers.v[name].v["url"] = JStr("https://host/mcp")
                     /\ ~HasKey(servers.v[name], "type")) =>
                        /\ HasKey(GeminiServers, <<GENERATED_FILE_PREFIX>> \o name)
                        /\ LET Entry(e) ==
                                   /\ HasKey(e, "httpUrl")
                                   /\ e.v["httpUrl"] = servers.v[name].v["url"]
                                   /\ ~HasKey(e, "url")
                                   /\ ~HasKey(e, "command")
                           IN  Entry(GeminiServers.v[<<GENERATED_FILE_PREFIX>> \o name])
        IN  Renamed(ReadToString(fs, mcp_source_path).json[1].v[MCP_SERVERS_FIELD])

\* C24, amended: after a generate for gemini on a source that the reader
\* accepts, every server of the source with a url that ends in /mcp, with no type
\* and with no httpUrl of its own has an entry in .gemini/settings.json whose
\* httpUrl is that url and that has neither a url nor a command; a server that
\* declares an httpUrl keeps it, and its entry has neither a url nor a command.
C24_UrlBecomesHttpUrlUnlessGiven ==
    (/\ last.op = "generate" /\ last.ok /\ GeminiConfigured
     /\ Exists(fs, mcp_source_path) /\ IsMcpConfig(ReadToString(fs, mcp_source_path))) =>
        LET Entry(e, httpUrl) ==
                /\ HasKey(e, "httpUrl")
                /\ e.v["httpUrl"] = httpUrl
                /\ ~HasKey(e, "url")
                /\ ~HasKey(e, "command")
            Renamed(servers) ==
                \A name \in DOMAIN servers.v :
                    /\ (/\ HasKey(servers.v[name], "url")
                        /\ servers.v[name].v["url"] = JStr("https://host/mcp")
                        /\ ~HasKey(servers.v[name], "type")
                        /\ ~HasKey(servers.v[name], "httpUrl")) =>
                           /\ HasKey(GeminiServers, <<GENERATED_FILE_PREFIX>> \o name)
                           /\ Entry(GeminiServers.v[<<GENERATED_FILE_PREFIX>> \o name],
                                    servers.v[name].v["url"])
                    /\ HasKey(servers.v[name], "httpUrl") =>
                           /\ HasKey(GeminiServers, <<GENERATED_FILE_PREFIX>> \o name)
                           /\ Entry(GeminiServers.v[<<GENERATED_FILE_PREFIX>> \o name],
                                    servers.v[name].v["httpUrl"])
        IN  Renamed(ReadToString(fs, mcp_source_path).json[1].v[MCP_SERVERS_FIELD])

\* A generate for gemini has written the entry of a source server that has a
\* command and a url ending in /mcp, and neither a type nor an httpUrl.
C24_Witness ==
    /\ last.op = "generate" /\ last.ok /\ GeminiConfigured
    /\ Exists(fs, mcp_source_path)
    /\ ReadToString(fs, mcp_source_path).json =
           <<JObj([key \in {MCP_SERVERS_FIELD} |->
                JObj([name \in {<<"jira">>} |->
                    JObj([key2 \in {"command", "url"} |->
                        IF key2 = "command" THEN JStr("") ELSE JStr("https://host/mcp")])])])>>
    /\ HasKey(GeminiServers, <<GENERATED_FILE_PREFIX, "jira">>)
    /\ GeminiServers.v[<<GENERATED_FILE_PREFIX, "jira">>] =
           JObj([key \in {"httpUrl"} |-> JStr("https://host/mcp")])

(***************************************************************************)
(* Merging: a base and an overlay, JSON objects nested up to MaxDepth      *)
(* whose strings and arrays tell which of the two they come from.          *)
(***************************************************************************)
MaxDepth == 2

MergeKeys == {"k", "m"}

JsonLeaves(side) == {JStr(side), JArr(<<JStr(side)>>)}

RECURSIVE JsonObjects(_, _)
JsonObjects(depth, side) ==
    IF depth = 0 THEN {JEmpty}
    ELSE LET Over(values) ==
                 {JObj([key \in {k \in MergeKeys : member[k] # None} |-> member[key][1]]) :
                      member \in [MergeKeys -> {None} \cup {Some(v) : v \in values}]}
         IN  Over(JsonLeaves(side) \cup JsonObjects(depth - 1, side))

NoMerge == [asked |-> "none", base |-> JEmpty, overlay |-> JEmpty, merged |-> JEmpty]

MergeInit ==
    /\ fs = EmptyFs
    /\ args = [agents |-> None, use_claude_skills |-> FALSE]
    /\ last = [op |-> "none", ok |-> TRUE]
    /\ cleaned = fs
    /\ status = NoStatus
    /\ fresh = FALSE
    /\ edit = [kind |-> "none", name |-> "", fresh |-> FALSE]
    /\ snapshot = fs
    /\ edits = 0
    /\ \E base \in JsonObjects(MaxDepth, "base"), overlay \in JsonObjects(MaxDepth, "overlay") :
           query = [NoMerge EXCEPT !.base = base, !.overlay = overlay]

MergeOverlay ==
    /\ query.asked = "none"
    /\ query' = [query EXCEPT !.asked = "merge",
                              !.merged = merge_json_objects(query.base, query.overlay)]
    /\ UNCHANGED <<fs, args, last, cleaned, status, fresh, edit, snapshot, edits>>

MergeNext == MergeOverlay

MergeSpec == MergeInit /\ [][MergeNext]_vars

\* merged is base with overlay merged in: at a key where both hold an object the
\* two are merged in the same way, at any other key of the overlay its value
\* stands, and a key of the base alone keeps its value.
RECURSIVE IsMergeOf(_, _, _)
IsMergeOf(merged, base, overlay) ==
    /\ is_object(merged)
    /\ DOMAIN merged.v = (DOMAIN base.v) \cup (DOMAIN overlay.v)
    /\ \A key \in DOMAIN merged.v :
           IF key \notin DOMAIN overlay.v THEN merged.v[key] = base.v[key]
           ELSE IF key \in DOMAIN base.v /\ is_object(base.v[key]) /\ is_object(overlay.v[key])
           THEN IsMergeOf(merged.v[key], base.v[key], overlay.v[key])
           ELSE merged.v[key] = overlay.v[key]

\* C25: merging an overlay object into a base object merges, at every key where
\* both hold an object, the two objects in the same way, takes the overlay's
\* value in every other case, arrays included, and keeps the keys of the base
\* that the overlay has not.
C25_MergeOverlayIntoBase ==
    query.asked = "merge" => IsMergeOf(query.merged, query.base, query.overlay)

\* A merge of two objects that both hold an object at k and an array at m: the
\* merged object at k has the keys of both, and at m the array of the overlay.
C25_Witness ==
    /\ query.asked = "merge"
    /\ query.base.v = [key \in MergeKeys |->
            IF key = "k" THEN JObj([key2 \in {"k"} |-> JStr("base")])
            ELSE JArr(<<JStr("base")>>)]
    /\ query.overlay.v = [key \in MergeKeys |->
            IF key = "k" THEN JObj([key2 \in {"m"} |-> JStr("overlay")])
            ELSE JArr(<<JStr("overlay")>>)]
    /\ query.merged.v = [key \in MergeKeys |->
            IF key = "k"
            THEN JObj([key2 \in MergeKeys |-> IF key2 = "k" THEN JStr("base") ELSE JStr("overlay")])
            ELSE JArr(<<JStr("overlay")>>)]

\* The text of the rule file has no description key.
DescriptionMissing(source_file) ==
    \A j \in DOMAIN ReadToString(fs, RulePath(source_file.base_file_name)).text :
        ReadToString(fs, RulePath(source_file.base_file_name)).text[j] # "description:"

HasFrontmatter(source_file) ==
    Head(TrimStart(ReadToString(fs, RulePath(source_file.base_file_name)).text))
        = FRONTMATTER_DELIMITER

\* C26: a rule whose file gives no description has its file stem as its
\* description, whether the file has no frontmatter or a frontmatter without
\* the key.
C26_MissingDescriptionIsStem ==
    find_source_files(fs).ok =>
        \A i \in DOMAIN find_source_files(fs).source_files :
            LET Defaulted(source_file) ==
                    DescriptionMissing(source_file) =>
                        source_file.front_matter.description = source_file.base_file_name
            IN  Defaulted(find_source_files(fs).source_files[i])

\* The half of C26 that the code keeps: a rule file with no frontmatter has its
\* file stem as its description.
C26_NoFrontmatterIsStem ==
    find_source_files(fs).ok =>
        \A i \in DOMAIN find_source_files(fs).source_files :
            LET Defaulted(source_file) ==
                    ~HasFrontmatter(source_file) =>
                        source_file.front_matter.description = source_file.base_file_name
            IN  Defaulted(find_source_files(fs).source_files[i])

(***************************************************************************)
(* utils/file_utils.rs: traverse_project_directories                       *)
(*                                                                         *)
(* The recursion is a stack of the calls still to be made, each with its   *)
(* directory and its depth; query holds the stack, the directories the     *)
(* callback was called on, and how the traversal ended.                    *)
(***************************************************************************)
EXCLUDED_DIRECTORIES ==
    {"ai-rules", "target", "build", "dist", "out", "bin", "obj", "node_modules", "vendor",
     "packages", "__pycache__", ".pytest_cache", ".cache", ".vscode", ".idea", ".vs", "tmp",
     "temp", "logs"}

\* The names of the trees of the model, in the byte order Vec::sort gives them.
TreeNames == <<<<".git">>, <<"app">>, <<"lib">>, <<"node_modules">>, <<"notes">>, <<"up">>>>

\* str::starts_with('.') on the names of the model.
StartsWithDot(dir_name) == Head(dir_name) \in {".git"}

should_traverse_directory(dir_name) ==
    ~StartsWithDot(dir_name) /\ Head(dir_name) \notin EXCLUDED_DIRECTORIES

\* The path with the links on its way followed, or None when it leads nowhere.
RECURSIVE RealPath(_, _, _)
RealPath(tree, done, rest) ==
    IF rest = <<>> THEN Some(done)
    ELSE IF ~Has(tree, Append(done, Head(rest))) THEN None
    ELSE IF tree[Append(done, Head(rest))].k = "link"
    THEN RealPath(tree, <<>>, LinkTarget(tree, Append(done, Head(rest))) \o Tail(rest))
    ELSE IF tree[Append(done, Head(rest))].k = "dir"
    THEN RealPath(tree, Append(done, Head(rest)), Tail(rest))
    ELSE IF Tail(rest) = <<>> THEN Some(Append(done, Head(rest))) ELSE None

\* Path::is_dir, which follows links.
IsDirAt(tree, path) ==
    LET Dir(real) == real # None /\ (real[1] = <<>> \/ tree[real[1]].k = "dir")
    IN  Dir(RealPath(tree, <<>>, path))

\* A directory further down than the depth asked for is not read.
traverse_one_level_deeper(tree, current_dir, max_depth, current_depth) ==
    IF current_depth > max_depth THEN <<>>
    ELSE LET Calls(dirs) == [i \in DOMAIN dirs |-> [dir |-> dirs[i], depth |-> current_depth + 1]]
         IN  Calls(SelectSeq([i \in DOMAIN TreeNames |-> Join(current_dir, TreeNames[i])],
                             LAMBDA path : /\ IsDirAt(tree, path)
                                           /\ should_traverse_directory(FileName(path))))

\* traverse_project_directories after its callback: the calls it makes on the
\* subdirectories, in sorted order.
traverse_project_directories(tree, current_dir, max_depth, current_depth) ==
    IF current_depth >= max_depth THEN <<>>
    ELSE LET Calls(dirs) == [i \in DOMAIN dirs |-> [dir |-> dirs[i], depth |-> current_depth + 1]]
         IN  Calls(SelectSeq([i \in DOMAIN TreeNames |-> Join(current_dir, TreeNames[i])],
                             LAMBDA path : /\ IsDirAt(tree, path)
                                           /\ should_traverse_directory(FileName(path))))

MaxNestedDepth == 2

TreeDirs ==
    {<<<<"app">>>>, <<<<"app">>, <<"lib">>>>, <<<<"app">>, <<"lib">>, <<"app">>>>,
     <<<<"app">>, <<".git">>>>, <<<<"app">>, <<"node_modules">>>>, <<<<"lib">>>>,
     <<<<".git">>, <<"app">>>>, <<<<"node_modules">>, <<"lib">>>>}

\* A tree of directories with the file notes and, when linked, the link lib/up
\* to the root.
TreeOf(dirs, linked) ==
    LET Linked(tree) ==
            IF linked THEN Put(CreateDirAll(tree, <<<<"lib">>>>), <<<<"lib">>, <<"up">>>>,
                               LinkNode(<<DOTDOT>>))
            ELSE tree
    IN  Linked(Put([path \in UNION {Ancestors(d) \cup {d} : d \in dirs} |-> DirNode],
                   <<<<"notes">>>>, FileNode(TextOf(<<"text">>))))

Traversal(max_depth) ==
    [asked |-> "traverse", max_depth |-> max_depth, stack |-> <<[dir |-> <<>>, depth |-> 0]>>,
     calls |-> <<>>, failed |-> FALSE, done |-> FALSE]

TraverseInit ==
    /\ \E dirs \in SUBSET TreeDirs, linked \in BOOLEAN : fs = TreeOf(dirs, linked)
    /\ args = [agents |-> None, use_claude_skills |-> FALSE]
    /\ last = [op |-> "none", ok |-> TRUE]
    /\ cleaned = fs
    /\ status = NoStatus
    /\ fresh = FALSE
    /\ edit = [kind |-> "none", name |-> "", fresh |-> FALSE]
    /\ snapshot = fs
    /\ edits = 0
    /\ \E max_depth \in 0..MaxNestedDepth : query = Traversal(max_depth)

\* One call of traverse_project_directories: the callback on its directory,
\* then, unless the depth is reached, the calls on its subdirectories.
Visit ==
    /\ query.stack # <<>>
    /\ query' = [query EXCEPT
           !.calls = Append(@, Head(query.stack).dir),
           !.stack = traverse_project_directories(fs, Head(query.stack).dir, query.max_depth,
                                                  Head(query.stack).depth)
                     \o Tail(query.stack)]
    /\ UNCHANGED <<fs, args, last, cleaned, status, fresh, edit, snapshot, edits>>

\* The callback returns Err: every call on the stack returns it at once.
CallbackFails ==
    /\ query.stack # <<>>
    /\ query' = [query EXCEPT !.calls = Append(@, Head(query.stack).dir),
                              !.stack = <<>>, !.failed = TRUE]
    /\ UNCHANGED <<fs, args, last, cleaned, status, fresh, edit, snapshot, edits>>

\* The outermost call returns.
Return ==
    /\ query.stack = <<>> /\ ~query.done
    /\ query' = [query EXCEPT !.done = TRUE]
    /\ UNCHANGED <<fs, args, last, cleaned, status, fresh, edit, snapshot, edits>>

TraverseNext == Visit \/ CallbackFails \/ Return

\* The program runs on: a call that can be made is made.
TraverseSpec == TraverseInit /\ [][TraverseNext]_vars /\ WF_vars(TraverseNext)

RECURSIVE PathsUpTo(_)
PathsUpTo(n) ==
    IF n = 0 THEN {<<>>}
    ELSE PathsUpTo(n - 1)
         \cup {Append(path, TreeNames[i]) : path \in PathsUpTo(n - 1), i \in DOMAIN TreeNames}

\* The root and the directories at most max_depth below it that are reached
\* through directories that are neither hidden nor excluded.
DirectoriesToVisit ==
    {path \in PathsUpTo(query.max_depth) :
        \A n \in 1..Len(path) :
            /\ IsDirAt(fs, SubSeq(path, 1, n))
            /\ Head(path[n]) \notin {".git"} \cup EXCLUDED_DIRECTORIES}

C28_SharedOutputSameContent ==
    LET Agree(contents) ==
            \A a, b \in AllTools :
                \A path \in (DOMAIN contents[a]) \cap (DOMAIN contents[b]) :
                    contents[a][path] = contents[b][path]
        Of(source_files) ==
            Agree([agent \in AllTools |->
                       Tool_generate_agent_contents(fs, agent, source_files,
                                                    args.use_claude_skills)])
    IN  find_source_files(fs).ok => Of(find_source_files(fs).source_files)

\* The files of the generated body directory that a reference line can name:
\* the body file of a rule and the optional index of an agent.
BodyFileNames == {<<GENERATED_FILE_PREFIX, stem, MD_EXTENSION>> : stem \in RuleStems}

OptionalIndexNames == {optional_rules_filename_for_agent(agent) : agent \in ReferenceAgents \cup AllTools}

\* Every reference line of a file on disk to one of the names leads to a file.
ReferencesExist(names) ==
    \A document \in DOMAIN fs :
        fs[document].k = "file" =>
            LET Lead(lines) ==
                    \A filename \in names :
                        (\E i \in DOMAIN lines : lines[i] = ReferenceTo(filename)) =>
                            IsFile(fs, Join(generated_body_file_dir, filename))
            IN  Lead(TextLines(fs[document].c.text))

\* C29: after a generate, every reference line of every generated document
\* names a file that is on disk, the optional index of an agent included.
C29_ReferencesExist ==
    (last.op = "generate" /\ last.ok) => ReferencesExist(BodyFileNames \cup OptionalIndexNames)

\* The part of C29 that the code keeps: after a generate, every reference line
\* to the body file of a rule names a file that is on disk.
C29_BodyReferencesExist ==
    (last.op = "generate" /\ last.ok) => ReferencesExist(BodyFileNames)

\* The generated entries of .claude/skills: the links to the user's skills and
\* the folders of the optional rules.
SkillSymlinks ==
    {p \in ReadDir(fs, CLAUDE_SKILLS_DIR) : StartsWithPrefix(FileName(p)) /\ IsSymlink(fs, p)}

RuleSkillFolders ==
    {p \in ReadDir(fs, CLAUDE_SKILLS_DIR) : StartsWithPrefix(FileName(p)) /\ fs[p].k = "dir"}

\* A generate for claude in skills mode has just succeeded on a project with
\* an optional rule and a skill of the user's.
GeneratedBothSkills ==
    /\ last.op = "generate" /\ last.ok /\ args.use_claude_skills
    /\ args.agents = None \/ \E i \in DOMAIN args.agents[1] : args.agents[1][i] = "claude"
    /\ find_source_files(fs).ok /\ OptionalRules(find_source_files(fs).source_files) # <<>>
    /\ find_skill_folders(fs) # {}
    /\ ~detect_symlink_mode(fs)

\* C30: after a generate with optional rules and skills of the user's, the check
\* of the rule skills answers as it does without the links to the user's skills,
\* and the check of the links answers as it does without the folders of the
\* rule skills.
C30_SkillChecksIndependent ==
    GeneratedBothSkills =>
        /\ check_skills_in_sync(fs, find_source_files(fs).source_files)
               = check_skills_in_sync(RemoveFiles(fs, SkillSymlinks),
                                      find_source_files(fs).source_files)
        /\ check_skill_symlinks_in_sync(fs, CLAUDE_SKILLS_DIR)
               = check_skill_symlinks_in_sync(RemoveDirs(fs, RuleSkillFolders), CLAUDE_SKILLS_DIR)

\* The half of C30 that the code keeps: the check of the links to the user's
\* skills answers as it does without the folders of the rule skills.
C30_SymlinkCheckIndependent ==
    GeneratedBothSkills =>
        check_skill_symlinks_in_sync(fs, CLAUDE_SKILLS_DIR)
            = check_skill_symlinks_in_sync(RemoveDirs(fs, RuleSkillFolders), CLAUDE_SKILLS_DIR)

====
